---- MODULE Spec2Model ----
(***************************************************************************)
(* Verification model of the OpenEXR codecs bundled with FreeImage:        *)
(*   - floatToFloat24 and Pxr24Compressor::compress / uncompress           *)
(*     (Source/OpenEXR/OpenEXR/ImfPxr24Compressor.cpp)                     *)
(*   - FastHufDecoder: constructor, buildTables, refill, readBits, decode  *)
(*     (Source/OpenEXR/OpenEXR/ImfFastHuf.cpp)                             *)
(*                                                                         *)
(* Machine words (unsigned int, uint64_t) are bit vectors: sequences of    *)
(* 0/1 with the most significant bit at index 1, so that shifts drop bits  *)
(* and additions wrap exactly as the C++ unsigned types do.                *)
(***************************************************************************)
EXTENDS Integers, Sequences, FiniteSets, TLC

\* ------------------------------------------------------------------------
\* Bit vectors
\* ------------------------------------------------------------------------

Pow2(n) == IF n <= 0 THEN 1 ELSE 2 ^ n

\* The w-bit vector of the natural number n (n < 2^31).
BV(w, n) == [i \in 1..w |-> IF w - i > 30 THEN 0 ELSE (n \div Pow2(w - i)) % 2]

\* The value of a bit vector whose set bits all lie in its low 30 positions,
\* four bits at a time where four are left.
RECURSIVE ValFrom(_, _)
ValFrom(b, i) ==
    IF i > Len(b) THEN 0
    ELSE IF i + 3 <= Len(b)
    THEN (8 * b[i] + 4 * b[i + 1] + 2 * b[i + 2] + b[i + 3]) * Pow2(Len(b) - i - 3)
         + ValFrom(b, i + 4)
    ELSE b[i] * Pow2(Len(b) - i) + ValFrom(b, i + 1)

IsSmall(b) == \A i \in 1..Len(b) : (Len(b) - i > 29) => b[i] = 0

Val(b) == ValFrom(b, IF Len(b) > 30 THEN Len(b) - 29 ELSE 1)

Zeros(w) == [i \in 1..w |-> 0]
Ones(w)  == [i \in 1..w |-> 1]

\* b << n and b >> n for 0 <= n < width
Shl(b, n) == [i \in 1..Len(b) |-> IF i + n <= Len(b) THEN b[i + n] ELSE 0]
Shr(b, n) == [i \in 1..Len(b) |-> IF i - n >= 1 THEN b[i - n] ELSE 0]

BOr(a, b)  == [i \in 1..Len(a) |-> IF a[i] = 1 \/ b[i] = 1 THEN 1 ELSE 0]
BAnd(a, b) == [i \in 1..Len(a) |-> IF a[i] = 1 /\ b[i] = 1 THEN 1 ELSE 0]
BNot(a)    == [i \in 1..Len(a) |-> 1 - a[i]]

\* F (x), with x computed once however often F uses it.
With(x, F(_)) == CHOOSE y \in {F(v) : v \in {x}} : TRUE

\* a + b + cin modulo 2^width, for widths that are multiples of 16: the sum
\* of the 16-bit digits k, k+1, .. (digit 0 the least significant), given the
\* carry into digit k.
Digit(a, k) == Val(SubSeq(a, Len(a) - 16 * k - 15, Len(a) - 16 * k))

RECURSIVE BAddFrom(_, _, _, _)
BAddFrom(a, b, k, c) ==
    IF 16 * k >= Len(a) THEN <<>>
    ELSE With(Digit(a, k) + Digit(b, k) + c,
              LAMBDA sum : BAddFrom(a, b, k + 1, sum \div 65536)
                           \o BV(16, sum % 65536))

BAddC(a, b, cin) ==
    With(<<SubSeq(a, 1, Len(a)), SubSeq(b, 1, Len(b))>>,
         LAMBDA ab : BAddFrom(ab[1], ab[2], 0, cin))

BAdd(a, b) == BAddC(a, b, 0)

\* a - b modulo 2^width (two's complement)
BSub(a, b) == BAddC(a, BNot(b), 1)

\* unsigned comparison
ULt(a, b) == \E i \in 1..Len(a) :
                 /\ a[i] < b[i]
                 /\ \A j \in 1..(i - 1) : a[j] = b[j]
ULe(a, b) == a = b \/ ULt(a, b)

\* A 32-bit word from its two 16-bit halves.
Hex32(hi, lo) == BV(16, hi) \o BV(16, lo)

\* ------------------------------------------------------------------------
\* floatToFloat24 (ImfPxr24Compressor.cpp)
\* ------------------------------------------------------------------------

\* An IEEE-754 binary32 pattern from sign, exponent field and significand.
F32(s, e, m) == <<s>> \o BV(8, e) \o BV(23, m)

\* floatToFloat24 without the exponent-overflow guard of lines 119-129.
floatToFloat24_noClamp(f) ==
    LET s == BAnd(f, Hex32(32768, 0))
        e == BAnd(f, Hex32(32640, 0))
        m == BAnd(f, Hex32(127, 65535))
        i == IF e = Hex32(32640, 0)
             THEN IF m # Zeros(32)
                  THEN LET m8 == Shr(m, 8)
                       IN  BOr(BOr(Shr(e, 8), m8),
                               IF m8 = Zeros(32) THEN BV(32, 1) ELSE Zeros(32))
                  ELSE Shr(e, 8)
             ELSE Shr(BAdd(BOr(e, m), BAnd(m, BV(32, 128))), 8)
    IN  BOr(Shr(s, 8), i)

\* floatToFloat24 rounding on bit 8 instead of bit 7 (mask 0x100 for 0x80).
floatToFloat24_roundBit8(f) ==
    LET s == BAnd(f, Hex32(32768, 0))
        e == BAnd(f, Hex32(32640, 0))
        m == BAnd(f, Hex32(127, 65535))
        i == IF e = Hex32(32640, 0)
             THEN IF m # Zeros(32)
                  THEN LET m8 == Shr(m, 8)
                       IN  BOr(BOr(Shr(e, 8), m8),
                               IF m8 = Zeros(32) THEN BV(32, 1) ELSE Zeros(32))
                  ELSE Shr(e, 8)
             ELSE LET r == Shr(BAdd(BOr(e, m), BAnd(m, BV(32, 256))), 8)
                  IN  IF ULe(Hex32(127, 32768), r)
                      THEN Shr(BOr(e, m), 8)
                      ELSE r
    IN  BOr(Shr(s, 8), i)

floatToFloat24(f) ==
    LET s == BAnd(f, Hex32(32768, 0))          \* 0x80000000
        e == BAnd(f, Hex32(32640, 0))          \* 0x7f800000
        m == BAnd(f, Hex32(127, 65535))        \* 0x007fffff
        i == IF e = Hex32(32640, 0)
             THEN IF m # Zeros(32)
                  THEN LET m8 == Shr(m, 8)
                       IN  BOr(BOr(Shr(e, 8), m8),
                               IF m8 = Zeros(32) THEN BV(32, 1) ELSE Zeros(32))
                  ELSE Shr(e, 8)
             ELSE LET r == Shr(BAdd(BOr(e, m), BAnd(m, BV(32, 128))), 8)
                  IN  IF ULe(Hex32(127, 32768), r)      \* 0x7f8000
                      THEN Shr(BOr(e, m), 8)
                      ELSE r
    IN  BOr(Shr(s, 8), i)

\* Conversion back to 32 bits: an 8-bit shift to the left.
float24ToFloat(i) == Shl(i, 8)


\* ------------------------------------------------------------------------
\* Pxr24Compressor (ImfPxr24Compressor.cpp)
\* ------------------------------------------------------------------------

\* Low byte of a 32-bit word: the value stored by "*p = (unsigned char) w".
LowByte(w) == Val(SubSeq(w, 25, 32))

\* An unsigned int as the host (little-endian x86) lays it out in memory, and
\* back: the byte-wise copies through "char *pPtr = (char *) &pixel".
HostWord(b0, b1, b2, b3) == BV(8, b3) \o BV(8, b2) \o BV(8, b1) \o BV(8, b0)
HostBytes(w) == <<LowByte(w), LowByte(Shr(w, 8)), LowByte(Shr(w, 16)), LowByte(Shr(w, 24))>>

\* half::bits() of the half stored at two bytes, widened to unsigned int.
HostHalf(b0, b1) == Zeros(16) \o BV(8, b1) \o BV(8, b0)

\* numSamples (s, a, b): the number of multiples of s in [a, b].
numSamples(s, a, b) == Cardinality({x \in a..b : x % s = 0})

\* modp (y, s): the non-negative remainder.
modp(y, s) == y % s

Min(a, b) == IF a < b THEN a ELSE b

\* Bytes of one sample in the caller's pixel data, and byte planes of one
\* sample in the preprocessed stream.
InBytesPerSample(type) == IF type = "HALF" THEN 2 ELSE 4
PlaneCount(type)       == IF type = "UINT" THEN 4 ELSE IF type = "HALF" THEN 2 ELSE 3

\* The (row, channel) pairs the two nested loops visit, in order, each with
\* its sample count n.
RECURSIVE Traverse(_, _, _, _, _, _)
Traverse(channels, y, maxY, ci, minX, maxX) ==
    IF y > maxY THEN <<>>
    ELSE IF ci > Len(channels) THEN Traverse(channels, y + 1, maxY, 1, minX, maxX)
    ELSE IF modp(y, channels[ci].ySampling) # 0
         THEN Traverse(channels, y, maxY, ci + 1, minX, maxX)
    ELSE <<[type |-> channels[ci].type,
            n    |-> numSamples(channels[ci].xSampling, minX, maxX)]>>
         \o Traverse(channels, y, maxY, ci + 1, minX, maxX)

\* The integer compress() delta-codes for sample j (0-based) of a block whose
\* pixel data start at inBytes[pos + 1].
SampleValue(type, inBytes, pos, j) ==
    IF type = "UINT"
    THEN HostWord(inBytes[pos + 4*j + 1], inBytes[pos + 4*j + 2],
                  inBytes[pos + 4*j + 3], inBytes[pos + 4*j + 4])
    ELSE IF type = "HALF"
    THEN HostHalf(inBytes[pos + 2*j + 1], inBytes[pos + 2*j + 2])
    ELSE floatToFloat24(HostWord(inBytes[pos + 4*j + 1], inBytes[pos + 4*j + 2],
                                 inBytes[pos + 4*j + 3], inBytes[pos + 4*j + 4]))

\* diff = pixel - previousPixel, previousPixel starting at 0 in every block.
EncodeDiff(type, inBytes, pos, j) ==
    BSub(SampleValue(type, inBytes, pos, j),
         IF j = 0 THEN Zeros(32) ELSE SampleValue(type, inBytes, pos, j - 1))

\* PlaneByte with the UINT case storing "diff >> 8" in plane 1 as well.
PlaneByte_dupShift(type, k, diff) ==
    IF type = "UINT" THEN LowByte(Shr(diff, IF k = 1 THEN 8 ELSE 24 - 8*k))
    ELSE IF type = "HALF" THEN LowByte(Shr(diff, 8 - 8*k))
    ELSE LowByte(Shr(diff, 16 - 8*k))

\* The byte stored in plane k (0-based) for a difference.
PlaneByte(type, k, diff) ==
    IF type = "UINT" THEN LowByte(Shr(diff, 24 - 8*k))
    ELSE IF type = "HALF" THEN LowByte(Shr(diff, 8 - 8*k))
    ELSE LowByte(Shr(diff, 16 - 8*k))

\* The bytes one block adds to tmpBuffer: PlaneCount planes of n bytes.
EncodeBlock(type, n, inBytes, pos) ==
    [i \in 1..(PlaneCount(type) * n) |->
        PlaneByte(type, (i - 1) \div n, EncodeDiff(type, inBytes, pos, (i - 1) % n))]

\* The loops of compress(): the preprocessed bytes written from _tmpBuffer on.
RECURSIVE EncodeBlocks(_, _, _, _)
EncodeBlocks(blocks, k, inBytes, pos) ==
    IF k > Len(blocks) THEN <<>>
    ELSE EncodeBlock(blocks[k].type, blocks[k].n, inBytes, pos)
         \o EncodeBlocks(blocks, k + 1, inBytes,
                         pos + InBytesPerSample(blocks[k].type) * blocks[k].n)

\* DecodeDiff with the FLOAT case gathering its three bytes into bits 23..0.
DecodeDiff_floatLow(type, n, tmp, pos, j) ==
    IF type = "UINT"
    THEN BV(8, tmp[pos + j + 1]) \o BV(8, tmp[pos + n + j + 1])
         \o BV(8, tmp[pos + 2*n + j + 1]) \o BV(8, tmp[pos + 3*n + j + 1])
    ELSE IF type = "HALF"
    THEN Zeros(16) \o BV(8, tmp[pos + j + 1]) \o BV(8, tmp[pos + n + j + 1])
    ELSE Zeros(8) \o BV(8, tmp[pos + j + 1]) \o BV(8, tmp[pos + n + j + 1])
         \o BV(8, tmp[pos + 2*n + j + 1])

\* diff gathered from the planes of a block starting at tmp[pos + 1].
DecodeDiff(type, n, tmp, pos, j) ==
    IF type = "UINT"
    THEN BV(8, tmp[pos + j + 1]) \o BV(8, tmp[pos + n + j + 1])
         \o BV(8, tmp[pos + 2*n + j + 1]) \o BV(8, tmp[pos + 3*n + j + 1])
    ELSE IF type = "HALF"
    THEN Zeros(16) \o BV(8, tmp[pos + j + 1]) \o BV(8, tmp[pos + n + j + 1])
    ELSE BV(8, tmp[pos + j + 1]) \o BV(8, tmp[pos + n + j + 1])
         \o BV(8, tmp[pos + 2*n + j + 1]) \o Zeros(8)

\* pixel += diff, pixel starting at 0 in every block: pixel after sample j.
RECURSIVE DecodePixel(_, _, _, _, _)
DecodePixel(type, n, tmp, pos, j) ==
    BAdd(IF j = 0 THEN Zeros(32) ELSE DecodePixel(type, n, tmp, pos, j - 1),
         DecodeDiff(type, n, tmp, pos, j))

\* The bytes written through writePtr for one sample.
SampleBytes(type, pixel) ==
    IF type = "HALF" THEN <<LowByte(pixel), LowByte(Shr(pixel, 8))>>
    ELSE HostBytes(pixel)

RECURSIVE DecodeBlock(_, _, _, _, _)
DecodeBlock(type, n, tmp, pos, j) ==
    IF j >= n THEN <<>>
    ELSE SampleBytes(type, DecodePixel(type, n, tmp, pos, j))
         \o DecodeBlock(type, n, tmp, pos, j + 1)

\* The bounds check written with >= for >.
PlanesOverrun_orEqual(tmpBufferEnd, tmpSize) == tmpBufferEnd >= tmpSize

\* The bounds check in front of each channel's sample loop.
PlanesOverrun(tmpBufferEnd, tmpSize) == tmpBufferEnd > tmpSize

\* The loops of uncompress(): err is "NotEnoughData" when a block's planes end
\* beyond tmpSize; out are the bytes written from _outBuffer on; tmpEnd is
\* tmpBufferEnd - _tmpBuffer; readEnd is one past the last tmp index read.
RECURSIVE DecodeBlocks(_, _, _, _, _, _, _)
DecodeBlocks(blocks, k, tmp, tmpSize, pos, out, readEnd) ==
    IF k > Len(blocks)
    THEN [err |-> "none", out |-> out, tmpEnd |-> pos, readEnd |-> readEnd]
    ELSE LET type == blocks[k].type
             n    == blocks[k].n
             end  == pos + PlaneCount(type) * n
         IN  IF PlanesOverrun(end, tmpSize)
             THEN [err |-> "NotEnoughData", out |-> out, tmpEnd |-> end,
                   readEnd |-> readEnd]
             ELSE DecodeBlocks(blocks, k + 1, tmp, tmpSize, end,
                               out \o DecodeBlock(type, n, tmp, pos, 0),
                               IF n > 0 THEN end ELSE readEnd)

\* zlib behind ::compress / ::uncompress, as a lossless identity.  inflate
\* fails when the data do not fit the destination.
Deflate(bytes) == bytes
InflateFits(bytes, capacity) == Len(bytes) <= capacity
Inflate(bytes) == bytes

\* Overwrite the first Len(bytes) elements of a buffer.
StoreAt0(buf, bytes) ==
    [i \in 1..Len(buf) |-> IF i <= Len(bytes) THEN bytes[i] ELSE buf[i]]


\* ------------------------------------------------------------------------
\* FastHufDecoder (ImfFastHuf.cpp): construction
\* ------------------------------------------------------------------------

MAX_CODE_LEN       == 58
SHORT_ZEROCODE_RUN == 59
LONG_ZEROCODE_RUN  == 63
SHORTEST_LONG_RUN  == 2 + LONG_ZEROCODE_RUN - SHORT_ZEROCODE_RUN

\* Width of the acceleration table index.  The reference build uses 12; the
\* model is checked with a narrower index so that code books without any
\* code of at most TABLE_LOOKUP_BITS bits stay small.
TABLE_LOOKUP_BITS  == 3

Sentinel == Ones(64)                      \* 0xffffffffffffffffULL

\* readBits (numBits, buffer, bufferNumBits, currByte): currByte is an offset
\* into table.
RECURSIVE readBits(_, _, _, _, _)
readBits(numBits, buffer, bufferNumBits, currByte, table) ==
    IF bufferNumBits < numBits
    THEN readBits(numBits, BOr(Shl(buffer, 8), BV(64, table[currByte + 1])),
                  bufferNumBits + 8, currByte + 1, table)
    ELSE [value |-> Val(BAnd(Shr(buffer, bufferNumBits - numBits),
                             BV(64, Pow2(numBits) - 1))),
          buffer |-> buffer,
          bufferNumBits |-> bufferNumBits - numBits,
          currByte |-> currByte]

\* scanRun refusing a run that ends at maxSymbol.
scanRun_strictEnd(maxSymbol, st, r, runLen) ==
    IF st.symbol + runLen > maxSymbol
    THEN [st EXCEPT !.currBits = r.buffer, !.currBitCount = r.bufferNumBits,
                    !.currByte = r.currByte, !.err = "TableOverrun"]
    ELSE [st EXCEPT !.currBits = r.buffer, !.currBitCount = r.bufferNumBits,
                    !.currByte = r.currByte, !.symbol = st.symbol + runLen - 1 + 1]

\* The end of a pass of the scan loop that met a run of runLen zero lengths;
\* r holds the bit reader after the run's fields.
scanRun(maxSymbol, st, r, runLen) ==
    IF st.symbol + runLen > maxSymbol + 1
    THEN [st EXCEPT !.currBits = r.buffer, !.currBitCount = r.bufferNumBits,
                    !.currByte = r.currByte, !.err = "TableOverrun"]
    ELSE [st EXCEPT !.currBits = r.buffer, !.currBitCount = r.bufferNumBits,
                    !.currByte = r.currByte, !.symbol = st.symbol + runLen - 1 + 1]

\* A pass of the scan loop from the 6-bit field r.value on.
\* st.symbols holds (symbol << 6) | codeLen for every symbol with a code.
scanCode(table, numBytes, maxSymbol, st, r) ==
    IF r.value = LONG_ZEROCODE_RUN
    THEN IF r.currByte >= numBytes
         THEN [st EXCEPT !.currBits = r.buffer, !.currBitCount = r.bufferNumBits,
                         !.currByte = r.currByte, !.err = "TableTruncated"]
         ELSE With(readBits(8, r.buffer, r.bufferNumBits, r.currByte, table),
                   LAMBDA r2 :
                       scanRun(maxSymbol, st, r2, r2.value + SHORTEST_LONG_RUN))
    ELSE IF r.value >= SHORT_ZEROCODE_RUN
    THEN scanRun(maxSymbol, st, r, r.value - SHORT_ZEROCODE_RUN + 2)
    ELSE [st EXCEPT !.currBits = r.buffer, !.currBitCount = r.bufferNumBits,
                    !.currByte = r.currByte, !.symbol = st.symbol + 1,
                    !.symbols = IF r.value # 0
                                THEN Append(st.symbols,
                                            st.symbol * 64 + (r.value % 64))
                                ELSE st.symbols]

\* One pass of the scan loop.
scanStep(table, numBytes, maxSymbol, st) ==
    IF st.currByte >= numBytes THEN [st EXCEPT !.err = "TableTruncated"]
    ELSE With(readBits(6, st.currBits, st.currBitCount, st.currByte, table),
              LAMBDA r : scanCode(table, numBytes, maxSymbol, st, r))

\* The next n passes of the scan loop, or as many as the loop makes: the
\* first half of them, then the rest.
RECURSIVE scanPasses(_, _, _, _, _)
scanPasses(table, numBytes, maxSymbol, st, n) ==
    IF n <= 0 \/ st.symbol > maxSymbol \/ st.err # "none" THEN st
    ELSE IF n = 1 THEN scanStep(table, numBytes, maxSymbol, st)
    ELSE With(scanPasses(table, numBytes, maxSymbol, st, n \div 2),
              LAMBDA st2 : scanPasses(table, numBytes, maxSymbol, st2,
                                      n - n \div 2))

\* The code length scan of the constructor, from the loop head for st.symbol:
\* every pass moves st.symbol on, so the loop makes at most
\* maxSymbol - st.symbol + 1 passes.
scanTable(table, numBytes, maxSymbol, st) ==
    scanPasses(table, numBytes, maxSymbol, st, maxSymbol - st.symbol + 1)

\* codeCount[l], _minCodeLength and _maxCodeLength as the scan leaves them.
CodeCount(symbols) ==
    [l \in 0..MAX_CODE_LEN |->
        Cardinality({k \in 1..Len(symbols) : symbols[k] % 64 = l})]

MinCodeLength(symbols) ==
    IF symbols = <<>> THEN 255
    ELSE CHOOSE l \in 1..MAX_CODE_LEN :
            /\ \E k \in 1..Len(symbols) : symbols[k] % 64 = l
            /\ \A k \in 1..Len(symbols) : symbols[k] % 64 >= l

MaxCodeLength(symbols) ==
    IF symbols = <<>> THEN 0
    ELSE CHOOSE l \in 1..MAX_CODE_LEN :
            /\ \E k \in 1..Len(symbols) : symbols[k] % 64 = l
            /\ \A k \in 1..Len(symbols) : symbols[k] % 64 <= l

\* codeCount[from] + .. + codeCount[to], summed by halves.
RECURSIVE SumRange(_, _, _)
SumRange(codeCount, from, to) ==
    IF from > to THEN 0
    ELSE IF from = to THEN codeCount[from]
    ELSE SumRange(codeCount, from, (from + to) \div 2)
         + SumRange(codeCount, (from + to) \div 2 + 1, to)

\* _numSymbols: the sum of codeCount[0 .. MAX_CODE_LEN - 1].
SumCounts(codeCount, i) == SumRange(codeCount, 0, i)

\* _numSymbols summed over every length, MAX_CODE_LEN included.
NumSymbols_inclusive(codeCount) == SumCounts(codeCount, MAX_CODE_LEN)

NumSymbols(codeCount) == SumCounts(codeCount, MAX_CODE_LEN - 1)

\* A uint64_t value converted to double: the 53 most significant bits from
\* its leading one on, the rest rounded to nearest, ties to even.
FirstOne(x, i) ==
    IF \A j \in i..Len(x) : x[j] = 0 THEN 0
    ELSE CHOOSE j \in i..Len(x) : x[j] = 1 /\ \A m \in i..(j - 1) : x[m] = 0

RoundDouble(x) ==
    LET p    == FirstOne(x, 1)
        last == p + 52
    IN  IF p = 0 \/ last >= Len(x) THEN x
        ELSE LET rem  == SubSeq(x, last + 1, Len(x))
                 half == <<1>> \o Zeros(Len(x) - last - 1)
                 kept == [i \in 1..Len(x) |-> IF i <= last THEN x[i] ELSE 0]
             IN  IF ULt(half, rem) \/ (rem = half /\ x[last] = 1)
                 THEN BAdd(kept, Shl(BV(Len(x), 1), Len(x) - last))
                 ELSE kept

\* countTmp[k] = (double) codeCount[k] * (double) (2ll << (max - k)), and
\* tmp after "for (k = l + 1; k <= max; ++k) tmp += countTmp[k]" as doubles
\* holding whole numbers below 2^64; adding 0.0 changes nothing, so the
\* lengths without a code are passed over.
CountTmp(codeCount, k, maxLen) == Shl(BV(64, codeCount[k]), maxLen - k + 1)

RECURSIVE CountTmpSum(_, _, _, _)
CountTmpSum(codeCount, k, maxLen, tmp) ==
    IF \A j \in k..maxLen : codeCount[j] = 0 THEN tmp
    ELSE With(CHOOSE j \in k..maxLen :
                  codeCount[j] > 0 /\ \A m \in k..(j - 1) : codeCount[m] = 0,
              LAMBDA j :
                  With(RoundDouble(BAdd(tmp, CountTmp(codeCount, j, maxLen))),
                       LAMBDA sum : CountTmpSum(codeCount, j + 1, maxLen, sum)))

CeilDiv(a, b) == (a + b - 1) \div b

\* (uint64_t) ceil (tmp / (double) (2ll << n)): the division by a power of
\* two is exact.
CeilShift(tmp, n) ==
    IF SubSeq(tmp, Len(tmp) - n, Len(tmp)) = Zeros(n + 1) THEN Shr(tmp, n + 1)
    ELSE BAdd(Shr(tmp, n + 1), BV(64, 1))

\* base[l] for l in [min, max]; the other lengths keep 0xffffffffffffffff.
Base(codeCount, minLen, maxLen) ==
    [l \in 0..MAX_CODE_LEN |->
        IF l >= minLen /\ l <= maxLen
        THEN CeilShift(CountTmpSum(codeCount, l + 1, maxLen, Zeros(64)),
                       maxLen - l)
        ELSE Sentinel]

\* offset[max] = 0, offset[i] = offset[i+1] + codeCount[i+1] down to min.
OffsetAt(codeCount, i, maxLen) ==
    IF i >= maxLen THEN 0 ELSE SumRange(codeCount, i + 1, maxLen)

Offset(codeCount, minLen, maxLen) ==
    [i \in 0..MAX_CODE_LEN |->
        IF i >= minLen /\ i <= maxLen THEN OffsetAt(codeCount, i, maxLen)
        ELSE 0]

\* One pass of the id -> symbol fill, for symbols[k].  mapping[l] is -1 (all
\* ones) outside [min, max].
fillOne(symbols, k, f, numSymbols) ==
    IF f.mapping[symbols[k] % 64] = -1
       \/ f.mapping[symbols[k] % 64] >= numSymbols
    THEN [f EXCEPT !.err = "InvalidTable"]
    ELSE [err |-> "none",
          mapping |-> [f.mapping EXCEPT ![symbols[k] % 64] = @ + 1],
          idToSymbol |-> [f.idToSymbol EXCEPT ![f.mapping[symbols[k] % 64]] =
                                                  symbols[k] \div 64]]

\* The passes for symbols[from .. to], up to the first that throws: the first
\* half of them, then the rest.
RECURSIVE fillRange(_, _, _, _, _)
fillRange(symbols, from, to, f, numSymbols) ==
    IF from > to \/ f.err # "none" THEN f
    ELSE IF from = to THEN fillOne(symbols, from, f, numSymbols)
    ELSE With(fillRange(symbols, from, (from + to) \div 2, f, numSymbols),
              LAMBDA g : fillRange(symbols, (from + to) \div 2 + 1, to, g,
                                   numSymbols))

\* The id -> symbol fill from symbols[k] on.
fillIdToSymbol(symbols, k, mapping, idToSymbol, numSymbols) ==
    With(fillRange(symbols, k, Len(symbols),
                   [err |-> "none", mapping |-> mapping,
                    idToSymbol |-> idToSymbol], numSymbols),
         LAMBDA f : [err |-> f.err, idToSymbol |-> f.idToSymbol])

\* buildTables: the left-justified base and offset tables.
LjBase(base) ==
    [i \in 0..MAX_CODE_LEN |->
        IF base[i] # Sentinel THEN Shl(base[i], 64 - i) ELSE Sentinel]

LjOffsetAt(i, offset, ljBase) ==
    IF i = 0 THEN BSub(BV(64, offset), ljBase)
    ELSE BSub(BV(64, offset), Shr(ljBase, 64 - i))

\* _ljOffset[i] for offset[i] = 0 and _ljBase[i] = 0xffffffffffffffff, the
\* operands of every length outside [min, max].
LjOffsetUnused == [i \in 0..MAX_CODE_LEN |-> LjOffsetAt(i, 0, Sentinel)]

LjOffset(offset, ljBase) ==
    [i \in 0..MAX_CODE_LEN |->
        IF offset[i] = 0 /\ ljBase[i] = Sentinel THEN LjOffsetUnused[i]
        ELSE LjOffsetAt(i, offset[i], ljBase[i])]

\* FirstLen with the comparison written < for <=.
RECURSIVE FirstLen_strict(_, _, _, _)
FirstLen_strict(ljBase, value, from, maxLen) ==
    IF from > maxLen THEN 0
    ELSE IF ULt(ljBase[from], value) THEN from
    ELSE FirstLen_strict(ljBase, value, from + 1, maxLen)

\* The first codeLen in [from, max] with _ljBase[codeLen] <= value, or 0.
RECURSIVE FirstLen(_, _, _, _)
FirstLen(ljBase, value, from, maxLen) ==
    IF from > maxLen THEN 0
    ELSE IF ULe(ljBase[from], value) THEN from
    ELSE FirstLen(ljBase, value, from + 1, maxLen)

\* One pass of the acceleration table loop, for index i.
TableEntry(i, ljBase, ljOffset, idToSymbol, numSymbols, minLen, maxLen) ==
    With(Shl(BV(64, i), 64 - TABLE_LOOKUP_BITS),
         LAMBDA value :
             With(FirstLen(ljBase, value, minLen, maxLen),
                  LAMBDA codeLen :
                      IF codeLen = 0
                      THEN [err |-> "none", symbol |-> 65535, codeLen |-> 0]
                      ELSE With(BAdd(ljOffset[codeLen], Shr(value, 64 - codeLen)),
                                LAMBDA id :
                                    IF ULt(id, BV(64, numSymbols))
                                    THEN [err |-> "none",
                                          symbol |-> idToSymbol[Val(id)],
                                          codeLen |-> codeLen]
                                    ELSE [err |-> "InvalidTable",
                                          symbol |-> 65535,
                                          codeLen |-> codeLen])))

\* minIdx after "while (minIdx > 0 && _ljBase[minIdx] == sentinel) minIdx--".
RECURSIVE MinIdx(_, _)
MinIdx(ljBase, minIdx) ==
    IF minIdx > 0 /\ ljBase[minIdx] = Sentinel THEN MinIdx(ljBase, minIdx - 1)
    ELSE minIdx

TableMin(ljBase) ==
    LET minIdx == MinIdx(ljBase, TABLE_LOOKUP_BITS)
    IN  IF minIdx < 0 THEN Sentinel ELSE ljBase[minIdx]

\* The acceleration table loop and _tableMin, given the left-justified tables.
buildLookup(lj, idToSymbol, numSymbols, minLen, maxLen) ==
    With([i \in 0..(Pow2(TABLE_LOOKUP_BITS) - 1) |->
             TableEntry(i, lj.ljBase, lj.ljOffset, idToSymbol, numSymbols,
                        minLen, maxLen)],
         LAMBDA entries :
             [err |-> IF \E i \in DOMAIN entries : entries[i].err # "none"
                      THEN "InvalidTable" ELSE "none",
              ljBase |-> lj.ljBase,
              ljOffset |-> lj.ljOffset,
              tableSymbol |-> [i \in DOMAIN entries |-> entries[i].symbol],
              tableCodeLen |-> [i \in DOMAIN entries |-> entries[i].codeLen],
              tableMin |-> TableMin(lj.ljBase)])

buildTables(base, offset, idToSymbol, numSymbols, minLen, maxLen) ==
    With(LjBase(base),
         LAMBDA ljBase :
             With([ljBase |-> ljBase, ljOffset |-> LjOffset(offset, ljBase)],
                  LAMBDA lj : buildLookup(lj, idToSymbol, numSymbols, minLen,
                                          maxLen)))

HufUninit == -1     \* an element of "new int[_numSymbols]" not yet assigned

NoDecoder ==
    [rleSymbol |-> 0, numSymbols |-> 0, minCodeLength |-> 255, maxCodeLength |-> 0,
     idToSymbol |-> <<>>, idAlloc |-> "null",
     ljBase |-> <<>>, ljOffset |-> <<>>, tableSymbol |-> <<>>,
     tableCodeLen |-> <<>>, tableMin |-> Sentinel,
     tableEnd |-> 0, err |-> "none",
     symbols |-> <<>>, codeCount |-> <<>>, base |-> <<>>, offset |-> <<>>,
     idNews |-> 0, idFrees |-> 0]

\* codeCount, _minCodeLength, _maxCodeLength, _numSymbols, base and offset
\* as the constructor has them in front of the _idToSymbol allocation.
codeTables(symbols) ==
    With([codeCount |-> CodeCount(symbols), minLen |-> MinCodeLength(symbols),
          maxLen |-> MaxCodeLength(symbols)],
         LAMBDA c :
             [codeCount |-> c.codeCount, minLen |-> c.minLen, maxLen |-> c.maxLen,
              numSymbols |-> NumSymbols(c.codeCount),
              base |-> Base(c.codeCount, c.minLen, c.maxLen),
              offset |-> Offset(c.codeCount, c.minLen, c.maxLen)])

\* The fields the constructor has set when it allocates _idToSymbol.
scanned(sc, c, rleSymbol) ==
    [NoDecoder EXCEPT !.rleSymbol = rleSymbol,
                      !.numSymbols = c.numSymbols,
                      !.minCodeLength = c.minLen,
                      !.maxCodeLength = c.maxLen,
                      !.tableEnd = sc.currByte,
                      !.symbols = sc.symbols,
                      !.codeCount = c.codeCount,
                      !.base = c.base,
                      !.offset = c.offset]

\* built with a catch block that rethrows without "delete[] _idToSymbol".
built_leakOnThrow(sc, c, fill, rleSymbol) ==
    With(buildTables(c.base, c.offset, fill.idToSymbol, c.numSymbols, c.minLen,
                     c.maxLen),
         LAMBDA t :
             IF t.err # "none"
             THEN [scanned(sc, c, rleSymbol) EXCEPT
                      !.idAlloc = "live", !.idNews = 1,
                      !.err = t.err,
                      !.ljBase = t.ljBase, !.ljOffset = t.ljOffset]
             ELSE [scanned(sc, c, rleSymbol) EXCEPT
                      !.idToSymbol = fill.idToSymbol,
                      !.idAlloc = "live",
                      !.idNews = 1,
                      !.ljBase = t.ljBase,
                      !.ljOffset = t.ljOffset,
                      !.tableSymbol = t.tableSymbol,
                      !.tableCodeLen = t.tableCodeLen,
                      !.tableMin = t.tableMin])

\* The constructor from "try { buildTables (base, offset); }" on.
built(sc, c, fill, rleSymbol) ==
    With(buildTables(c.base, c.offset, fill.idToSymbol, c.numSymbols, c.minLen,
                     c.maxLen),
         LAMBDA t :
             IF t.err # "none"
             THEN [scanned(sc, c, rleSymbol) EXCEPT
                      !.idAlloc = "null", !.idNews = 1, !.idFrees = 1,
                      !.err = t.err,
                      !.ljBase = t.ljBase, !.ljOffset = t.ljOffset]
             ELSE [scanned(sc, c, rleSymbol) EXCEPT
                      !.idToSymbol = fill.idToSymbol,
                      !.idAlloc = "live",
                      !.idNews = 1,
                      !.ljBase = t.ljBase,
                      !.ljOffset = t.ljOffset,
                      !.tableSymbol = t.tableSymbol,
                      !.tableCodeLen = t.tableCodeLen,
                      !.tableMin = t.tableMin])

\* The constructor from the _idToSymbol allocation on.
mapped(sc, c, rleSymbol) ==
    With(fillIdToSymbol(sc.symbols, 1,
                        [i \in 0..MAX_CODE_LEN |->
                            IF i >= c.minLen /\ i <= c.maxLen THEN c.offset[i]
                            ELSE -1],
                        [i \in 0..(c.numSymbols - 1) |-> HufUninit],
                        c.numSymbols),
         LAMBDA fill :
             IF fill.err # "none"
             THEN [scanned(sc, c, rleSymbol) EXCEPT !.idAlloc = "null",
                                                    !.idNews = 1,
                                                    !.idFrees = 1,
                                                    !.err = fill.err]
             ELSE built(sc, c, fill, rleSymbol))

\* FastHufDecoder::FastHufDecoder (table, numBytes, minSymbol, maxSymbol,
\* rleSymbol).  tableEnd is the offset "table" is advanced to; idAlloc tells
\* whether _idToSymbol is null, points to the live array or dangles; idNews
\* and idFrees count the new[] and delete[] of that array; symbols, codeCount,
\* base and offset are the constructor's locals as it leaves them.
FastHufDecoder(table, numBytes, minSymbol, maxSymbol, rleSymbol) ==
    With(scanTable(table, numBytes, maxSymbol,
                   [symbol |-> minSymbol, currBits |-> Zeros(64),
                    currBitCount |-> 0, currByte |-> 0, symbols |-> <<>>,
                    err |-> "none"]),
         LAMBDA sc :
             IF sc.err # "none"
             THEN [NoDecoder EXCEPT !.rleSymbol = rleSymbol, !.err = sc.err]
             ELSE With(codeTables(sc.symbols),
                       LAMBDA c : mapped(sc, c, rleSymbol)))


\* ------------------------------------------------------------------------
\* FastHufDecoder: refill and decode
\* ------------------------------------------------------------------------

\* READ64 (c): eight bytes from offset off of src, most significant first.
READ64(src, off) ==
    BV(8, src[off + 1]) \o BV(8, src[off + 2]) \o BV(8, src[off + 3])
    \o BV(8, src[off + 4]) \o BV(8, src[off + 5]) \o BV(8, src[off + 6])
    \o BV(8, src[off + 7]) \o BV(8, src[off + 8])

\* The "whatever bytes are left" loop of refill: bufferBack after or-ing in
\* the bytes from currByte on, the first at bit 56.
RECURSIVE TailWord(_, _, _, _)
TailWord(src, currByte, currBitsLeft, shift) ==
    IF currBitsLeft <= 0 THEN Zeros(64)
    ELSE BOr(Shl(BV(64, src[currByte + 1]), shift),
             TailWord(src, currByte + 1, currBitsLeft - 8, shift - 8))

TailBytes(currBitsLeft) == IF currBitsLeft <= 0 THEN 0 ELSE (currBitsLeft + 7) \div 8

\* A shift count the C++ standard defines for a 64-bit operand.
ShiftDefined(n) == n >= 0 /\ n <= 63

\* refill (buffer, numBits, bufferBack, bufferBackNumBits, currByte,
\* currBitsLeft) on the registers of r; ub is raised by a shift count outside
\* 0..63, loaded counts the bits put into bufferBack.
\* The branch of refill that reloads bufferBack from the stream: back is the
\* reloaded word, numBits2 the bits still owed to buffer.
refillBack(r, buffer1, numBits2, back, currByte, bitsLeft) ==
    IF ~ShiftDefined(64 - numBits2) THEN [r EXCEPT !.ub = TRUE]
    ELSE [r EXCEPT
            !.buffer = BOr(buffer1, Shr(back, 64 - numBits2)),
            !.bufferBack = IF 64 <= numBits2 THEN Zeros(64)
                           ELSE Shl(back, numBits2),
            !.bufferBackNumBits = 64 - numBits2,
            !.currByte = currByte,
            !.numSrcBits = bitsLeft,
            !.loaded = r.loaded + 64]

refill(r, numBits, src) ==
    IF ~ShiftDefined(64 - numBits) THEN [r EXCEPT !.ub = TRUE]
    ELSE
    With(BOr(r.buffer, Shr(r.bufferBack, 64 - numBits)),
         LAMBDA buffer1 :
            IF r.bufferBackNumBits < numBits
            THEN IF r.numSrcBits >= 64
                 THEN refillBack(r, buffer1, numBits - r.bufferBackNumBits,
                                 READ64(src, r.currByte), r.currByte + 8,
                                 r.numSrcBits - 64)
                 ELSE refillBack(r, buffer1, numBits - r.bufferBackNumBits,
                                 TailWord(src, r.currByte, r.numSrcBits, 56),
                                 r.currByte + TailBytes(r.numSrcBits), 0)
            ELSE [r EXCEPT
                    !.buffer = buffer1,
                    !.bufferBack = IF r.bufferBackNumBits <= numBits THEN Zeros(64)
                                   ELSE Shl(r.bufferBack, numBits),
                    !.bufferBackNumBits = r.bufferBackNumBits - numBits])

\* refillFull without "bufferNumBits = 64".
refillFull_keepCount(r, src) ==
    refill(r, 64 - r.bufferNumBits, src)

\* "refill (buffer, 64 - bufferNumBits, ...); bufferNumBits = 64;"
refillFull(r, src) ==
    [refill(r, 64 - r.bufferNumBits, src) EXCEPT !.bufferNumBits = 64]

\* The registers decode() starts its loop with.
decodeInit(src, numSrcBits, numDstElems) ==
    [buffer |-> READ64(src, 0), bufferNumBits |-> 64,
     bufferBack |-> READ64(src, 8), bufferBackNumBits |-> 64,
     currByte |-> 16, numSrcBits |-> numSrcBits - 128,
     dstIdx |-> 0, err |-> "none", ub |-> FALSE, oob |-> FALSE,
     loaded |-> 128, path |-> "none", codeLen |-> 0, symbol |-> HufUninit,
     rleCount |-> -1, passes |-> 0]

\* The symbol look-up at the head of the loop body: the acceleration table
\* when _tableMin <= buffer, the search over _ljBase otherwise.  Gives the
\* registers (the search refills first), codeLen, symbol and err.
\* The search loop gives the codeLen it stops at, or -1 when it reads
\* _ljBase[MAX_CODE_LEN + 1], past the end of the array.
RECURSIVE SearchLen(_, _, _, _)
SearchLen(ljBase, buffer, codeLen, maxLen) ==
    IF codeLen > MAX_CODE_LEN THEN -1
    ELSE IF ULt(buffer, ljBase[codeLen]) /\ codeLen <= maxLen
    THEN SearchLen(ljBase, buffer, codeLen + 1, maxLen)
    ELSE codeLen

lookupTable(d, r) ==
    LET tableIdx == Val(Shr(r.buffer, 64 - TABLE_LOOKUP_BITS))
    IN  [r EXCEPT !.path = "table",
                  !.codeLen = d.tableCodeLen[tableIdx],
                  !.symbol = d.tableSymbol[tableIdx]]

lookupSearch(d, r, codeLen) ==
    IF codeLen = -1 THEN [r EXCEPT !.path = "search", !.ub = TRUE]
    ELSE IF codeLen > d.maxCodeLength
    THEN [r EXCEPT !.path = "search", !.codeLen = codeLen, !.err = "InvalidSymbol"]
    ELSE With(BAdd(d.ljOffset[codeLen], Shr(r.buffer, 64 - codeLen)),
              LAMBDA id :
                  IF ULt(id, BV(64, d.numSymbols))
                  THEN [r EXCEPT !.path = "search", !.codeLen = codeLen,
                                 !.symbol = d.idToSymbol[Val(id)]]
                  ELSE [r EXCEPT !.path = "search", !.codeLen = codeLen,
                                 !.err = "InvalidSymbol"])

lookup(d, r0, src) ==
    IF ULe(d.tableMin, r0.buffer)
    THEN lookupTable(d, r0)
    ELSE With(IF r0.bufferNumBits < 64 THEN refillFull(r0, src) ELSE r0,
              LAMBDA r :
                  IF r.ub THEN r
                  ELSE With(SearchLen(d.ljBase, r.buffer, TABLE_LOOKUP_BITS + 1,
                                      d.maxCodeLength),
                            LAMBDA codeLen : lookupSearch(d, r, codeLen)))

\* rleFill copying dst[dstIdx] instead of dst[dstIdx - 1].
rleFill_fromCurrent(dst, dstIdx, rleCount) ==
    [i \in DOMAIN dst |->
        IF i >= dstIdx /\ i < dstIdx + rleCount THEN dst[dstIdx] ELSE dst[i]]

\* dst after "for (i < rleCount) dst[dstIdx + i] = dst[dstIdx - 1]".
rleFill(dst, dstIdx, rleCount) ==
    [i \in DOMAIN dst |->
        IF i >= dstIdx /\ i < dstIdx + rleCount THEN dst[dstIdx - 1] ELSE dst[i]]

\* rleChecks with the overrun test letting a run end one element late.
rleChecks_lateOverrun(r, rleCount, dst, numDstElems) ==
    IF r.dstIdx < 1
    THEN [r |-> [r EXCEPT !.rleCount = rleCount, !.err = "RleBeforeFirst"],
          dst |-> dst]
    ELSE IF r.dstIdx + rleCount > numDstElems + 1
    THEN [r |-> [r EXCEPT !.rleCount = rleCount, !.err = "RleOverrun"],
          dst |-> dst]
    ELSE IF rleCount <= 0
    THEN [r |-> [r EXCEPT !.rleCount = rleCount, !.err = "RleInvalid"],
          dst |-> dst]
    ELSE [r |-> [r EXCEPT !.rleCount = rleCount,
                          !.dstIdx = r.dstIdx + rleCount,
                          !.buffer = Shl(r.buffer, 8),
                          !.bufferNumBits = r.bufferNumBits - 8,
                          !.oob = r.oob \/ r.dstIdx < 1
                                        \/ r.dstIdx + rleCount > numDstElems],
          dst |-> rleFill(dst, r.dstIdx, rleCount)]

\* rleChecks without the test "rleCount <= 0".
rleChecks_zeroRun(r, rleCount, dst, numDstElems) ==
    IF r.dstIdx < 1
    THEN [r |-> [r EXCEPT !.rleCount = rleCount, !.err = "RleBeforeFirst"],
          dst |-> dst]
    ELSE IF r.dstIdx + rleCount > numDstElems
    THEN [r |-> [r EXCEPT !.rleCount = rleCount, !.err = "RleOverrun"],
          dst |-> dst]
    ELSE [r |-> [r EXCEPT !.rleCount = rleCount,
                          !.dstIdx = r.dstIdx + rleCount,
                          !.buffer = Shl(r.buffer, 8),
                          !.bufferNumBits = r.bufferNumBits - 8,
                          !.oob = r.oob \/ r.dstIdx < 1
                                        \/ r.dstIdx + rleCount > numDstElems],
          dst |-> rleFill(dst, r.dstIdx, rleCount)]

\* The RLE branch from "int rleCount = buffer >> 56" on.
rleChecks(r, rleCount, dst, numDstElems) ==
    IF r.dstIdx < 1
    THEN [r |-> [r EXCEPT !.rleCount = rleCount, !.err = "RleBeforeFirst"],
          dst |-> dst]
    ELSE IF r.dstIdx + rleCount > numDstElems
    THEN [r |-> [r EXCEPT !.rleCount = rleCount, !.err = "RleOverrun"],
          dst |-> dst]
    ELSE IF rleCount <= 0
    THEN [r |-> [r EXCEPT !.rleCount = rleCount, !.err = "RleInvalid"],
          dst |-> dst]
    ELSE [r |-> [r EXCEPT !.rleCount = rleCount,
                          !.dstIdx = r.dstIdx + rleCount,
                          !.buffer = Shl(r.buffer, 8),
                          !.bufferNumBits = r.bufferNumBits - 8,
                          !.oob = r.oob \/ r.dstIdx < 1
                                        \/ r.dstIdx + rleCount > numDstElems],
          dst |-> rleFill(dst, r.dstIdx, rleCount)]

\* The RLE branch: r0 has the code already shifted out.
rleRun(r0, dst, src, numDstElems) ==
    With(IF r0.bufferNumBits < 8 THEN refillFull(r0, src) ELSE r0,
         LAMBDA r :
             IF r.ub THEN [r |-> r, dst |-> dst]
             ELSE rleChecks(r, Val(Shr(r.buffer, 56)), dst, numDstElems))

\* "dst[dstIdx] = symbol; dstIdx++": dst holds unsigned shorts.
literal(r, dst, numDstElems) ==
    [r |-> [r EXCEPT !.dstIdx = r.dstIdx + 1,
                     !.oob = r.oob \/ r.dstIdx < 0 \/ r.dstIdx >= numDstElems],
     dst |-> [i \in DOMAIN dst |-> IF i = r.dstIdx THEN r.symbol % 65536 ELSE dst[i]]]

\* The refill at the end of the loop body.
topUp(w, src) ==
    IF w.r.ub \/ w.r.err # "none" THEN w
    ELSE IF w.r.bufferNumBits < TABLE_LOOKUP_BITS
    THEN [r |-> refillFull(w.r, src), dst |-> w.dst]
    ELSE w

\* The loop body from "buffer = buffer << codeLen" on.
consume(d, l, dst, src, numDstElems) ==
    IF l.ub \/ l.err # "none" THEN [r |-> l, dst |-> dst]
    ELSE IF ~ShiftDefined(l.codeLen) THEN [r |-> [l EXCEPT !.ub = TRUE], dst |-> dst]
    ELSE With([l EXCEPT !.buffer = Shl(l.buffer, l.codeLen),
                        !.bufferNumBits = l.bufferNumBits - l.codeLen],
              LAMBDA s :
                  With(IF s.symbol = d.rleSymbol
                       THEN rleRun(s, dst, src, numDstElems)
                       ELSE literal(s, dst, numDstElems),
                       LAMBDA w : topUp(w, src)))

\* One pass through the body of "while (dstIdx < numDstElems)"; passes counts
\* the passes of the call.
decodeStep(d, r0, dst, src, numDstElems) ==
    With(lookup(d, [r0 EXCEPT !.rleCount = -1, !.symbol = HufUninit,
                              !.codeLen = 0, !.path = "none",
                              !.passes = r0.passes + 1], src),
         LAMBDA l : consume(d, l, dst, src, numDstElems))

\* ------------------------------------------------------------------------
\* State
\* ------------------------------------------------------------------------

VARIABLES
    f24Pc,      \* position of the float24 conversion harness
    f24In,      \* the 32-bit input pattern
    f24Out,     \* floatToFloat24 (f24In)
    f24Back,    \* f24Out expanded to 32 bits again
    pxrPc,      \* where the caller of the Pxr24Compressor stands
    pxr,        \* the compressor's scalar fields: _channels, _minX, _maxX,
                \* _maxY, _numScanLines, _maxScanLineSize
    tmpBuffer,  \* contents of _tmpBuffer
    outBuffer,  \* contents of _outBuffer
    zlibCalls,  \* number of calls made to ::compress / ::uncompress
    range,      \* the Box2i of the current call
    inBytes,    \* pixel data handed to compress()
    wire,       \* compressed block handed to uncompress()
    roundTrip,  \* TRUE when wire is to come from compress()
    pxrRet,     \* value returned by the last call
    pxrOutPtr,  \* outPtr after the last call
    pxrErr,     \* exception thrown by the last call
    pxrTmp,     \* bookkeeping of the last uncompress(): tmpSize, tmpEnd, readEnd
    hufPc,      \* where the caller of the FastHufDecoder stands
    hufBook,    \* the packed code lengths and symbol range given to the constructor
    huf,        \* the decoder's fields
    hufSrc,     \* bytes at src of the current decode() call
    hufSrcBits, \* its numSrcBits argument
    hufN,       \* its numDstElems argument
    hufToks,    \* the codes and run lengths the caller packed into src
    hufReg,     \* locals of decode(): buffer, bufferBack, counters, dstIdx
    hufDst,     \* contents of dst[0 .. numDstElems - 1]
    hufErr      \* exception thrown by the decode() call

f24Vars == <<f24Pc, f24In, f24Out, f24Back>>

pxrVars == <<pxrPc, pxr, tmpBuffer, outBuffer, zlibCalls, range, inBytes, wire,
             roundTrip, pxrRet, pxrOutPtr, pxrErr, pxrTmp>>

hufVars == <<hufPc, hufBook, huf, hufSrc, hufSrcBits, hufN, hufToks, hufReg,
             hufDst, hufErr>>

vars == <<f24Pc, f24In, f24Out, f24Back,
          pxrPc, pxr, tmpBuffer, outBuffer, zlibCalls, range, inBytes, wire,
          roundTrip, pxrRet, pxrOutPtr, pxrErr, pxrTmp,
          hufPc, hufBook, huf, hufSrc, hufSrcBits, hufN, hufToks, hufReg,
          hufDst, hufErr>>

\* ------------------------------------------------------------------------
\* float24 conversion harness
\* ------------------------------------------------------------------------

F24Signs     == {0, 1}
F24Exponents == {0, 1, 127, 254, 255}
F24Mantissas == {0, 1, 127, 128, 129, 255, 256, 384, 8388479, 8388480, 8388607}

F24Idle == /\ f24Pc = "idle"
           /\ f24In = Zeros(32)
           /\ f24Out = Zeros(32)
           /\ f24Back = Zeros(32)

PxrIdle ==
    /\ pxrPc = "idle"
    /\ pxr = [channels |-> <<>>, minX |-> 0, maxX |-> 0, maxY |-> 0,
              numScanLines |-> 0, maxScanLineSize |-> 0]
    /\ tmpBuffer = <<>>
    /\ outBuffer = <<>>
    /\ zlibCalls = 0
    /\ range = [minX |-> 0, minY |-> 0, maxX |-> 0, maxY |-> 0]
    /\ inBytes = <<>>
    /\ wire = <<>>
    /\ roundTrip = FALSE
    /\ pxrRet = -1
    /\ pxrOutPtr = "null"
    /\ pxrErr = "none"
    /\ pxrTmp = [tmpSize |-> 0, tmpEnd |-> 0, readEnd |-> 0]

\* Locals of decode() outside a call.
NoRegisters ==
    [buffer |-> Zeros(64), bufferNumBits |-> 0,
     bufferBack |-> Zeros(64), bufferBackNumBits |-> 0,
     currByte |-> 0, numSrcBits |-> 0,
     dstIdx |-> 0, err |-> "none", ub |-> FALSE, oob |-> FALSE,
     loaded |-> 0, path |-> "none", codeLen |-> 0, symbol |-> HufUninit,
     rleCount |-> -1, passes |-> 0]

NoBook == [table |-> <<>>, numBytes |-> 0, minSymbol |-> 0, maxSymbol |-> 0,
           rleSymbol |-> 0, lengths |-> <<>>, syms |-> {}, run |-> 0,
           runBits |-> {}]

HufIdle ==
    /\ hufPc = "idle"
    /\ hufBook = NoBook
    /\ huf = NoDecoder
    /\ hufSrc = <<>>
    /\ hufSrcBits = 0
    /\ hufN = 0
    /\ hufToks = <<>>
    /\ hufReg = NoRegisters
    /\ hufDst = <<>>
    /\ hufErr = "none"

InitF24 ==
    /\ f24Pc = "input"
    /\ \E s \in F24Signs, e \in F24Exponents, m \in F24Mantissas :
           f24In = F32(s, e, m)
    /\ f24Out = Zeros(32)
    /\ f24Back = Zeros(32)
    /\ PxrIdle
    /\ HufIdle

Quantize ==
    /\ f24Pc = "input"
    /\ f24Out' = floatToFloat24(f24In)
    /\ f24Pc' = "quantized"
    /\ UNCHANGED <<f24In, f24Back>>
    /\ UNCHANGED <<pxrVars, hufVars>>

Expand ==
    /\ f24Pc = "quantized"
    /\ f24Back' = float24ToFloat(f24Out)
    /\ f24Pc' = "expanded"
    /\ UNCHANGED <<f24In, f24Out>>
    /\ UNCHANGED <<pxrVars, hufVars>>

NextF24 == Quantize \/ Expand

SpecF24 == InitF24 /\ [][NextF24]_vars

\* ------------------------------------------------------------------------
\* Pxr24Compressor: construction, compress, uncompress
\* ------------------------------------------------------------------------

\* Bounds of the Pxr24 harness.
PxrMaxX       == 2      \* dataWindow.max.x  (dataWindow.min.x is 0)
PxrMaxY       == 1      \* dataWindow.max.y
PxrMaxSamples == 4      \* most samples in one block of pixel data

Ch(t, xs, ys) == [type |-> t, xSampling |-> xs, ySampling |-> ys]

PxrChannelLists ==
    { <<Ch("UINT", 1, 1)>>,
      <<Ch("HALF", 1, 1)>>,
      <<Ch("FLOAT", 1, 1)>>,
      <<Ch("HALF", 2, 1), Ch("UINT", 1, 2)>>,
      <<Ch("FLOAT", 1, 1), Ch("HALF", 1, 2)>>,
      <<Ch("UINT", 2, 2), Ch("FLOAT", 2, 1)>> }

PxrRanges ==
    { [minX |-> x[1], maxX |-> x[2], minY |-> y[1], maxY |-> y[2]] :
        x \in {<<0, 0>>, <<0, PxrMaxX>>, <<1, PxrMaxX + 1>>},
        y \in {<<0, 0>>, <<0, PxrMaxY>>, <<1, PxrMaxY + 1>>, <<-1, 0>>} }

\* Sample values the pixel data are drawn from, as they lie in memory.
PxrSampleChoices == 1..3
PxrSample(type, c) ==
    IF type = "UINT"
    THEN <<  <<0, 0, 0, 0>>, <<255, 255, 255, 255>>, <<132, 3, 2, 1>>  >>[c]
    ELSE IF type = "HALF"
    THEN <<  <<0, 0>>, <<255, 255>>, <<1, 60>>  >>[c]
    ELSE <<  <<192, 0, 128, 63>>,       \* 0x3f8000c0, rounds up
             <<255, 255, 127, 127>>,    \* 0x7f7fffff, FLT_MAX
             <<1, 0, 128, 255>>  >>[c]  \* 0xff800001, a NaN

\* Pxr24Compressor::Pxr24Compressor
MaxInBytes(maxScanLineSize, numScanLines) == maxScanLineSize * numScanLines
MaxOutBytes(maxInBytes) == maxInBytes + ((maxInBytes + 99) \div 100) + 100

\* The header's row size: every channel's samples across the data window.
RECURSIVE ScanLineSize(_, _, _)
ScanLineSize(channels, ci, maxX) ==
    IF ci > Len(channels) THEN 0
    ELSE InBytesPerSample(channels[ci].type)
             * numSamples(channels[ci].xSampling, 0, maxX)
         + ScanLineSize(channels, ci + 1, maxX)

NewPxr(channels) ==
    [channels |-> channels, minX |-> 0, maxX |-> PxrMaxX, maxY |-> PxrMaxY,
     numScanLines |-> PxrMaxY + 1,
     maxScanLineSize |-> ScanLineSize(channels, 1, PxrMaxX)]

PxrPoison == 205    \* what the freshly allocated buffers happen to hold

\* The blocks a call with the given range visits.
Blocks(c, rng) ==
    Traverse(c.channels, rng.minY, Min(rng.maxY, c.maxY), 1,
             rng.minX, Min(rng.maxX, c.maxX))

RECURSIVE SamplesIn(_, _)
SamplesIn(blocks, k) ==
    IF k > Len(blocks) THEN 0 ELSE blocks[k].n + SamplesIn(blocks, k + 1)

\* Type of the s-th sample (1-based) of the traversal.
RECURSIVE TypeOfSample(_, _, _)
TypeOfSample(blocks, k, s) ==
    IF s <= blocks[k].n THEN blocks[k].type
    ELSE TypeOfSample(blocks, k + 1, s - blocks[k].n)

RECURSIVE Flatten(_)
Flatten(ss) == IF ss = <<>> THEN <<>> ELSE Head(ss) \o Flatten(Tail(ss))

\* Pixel data of matching size for a traversal, one choice per sample.
PixelData(blocks, choice) ==
    Flatten([s \in 1..SamplesIn(blocks, 1) |->
                PxrSample(TypeOfSample(blocks, 1, s), choice[s])])

PxrWireFill == {1, 254}

InitPxr ==
    /\ F24Idle
    /\ HufIdle
    /\ \E channels \in PxrChannelLists, rng \in PxrRanges :
        LET c      == NewPxr(channels)
            cap    == MaxInBytes(c.maxScanLineSize, c.numScanLines)
            blocks == Blocks(c, rng)
            total  == SamplesIn(blocks, 1)
        IN  /\ pxr = c
            /\ range = rng
            /\ tmpBuffer = [i \in 1..cap |-> PxrPoison]
            /\ outBuffer = [i \in 1..MaxOutBytes(cap) |-> PxrPoison]
            /\ \/ /\ roundTrip = TRUE
                  /\ pxrPc = "raw"
                  /\ wire = <<>>
                  /\ \/ /\ total <= PxrMaxSamples
                        /\ \E choice \in [1..total -> PxrSampleChoices] :
                               inBytes = PixelData(blocks, choice)
                     \/ inBytes = <<>>
               \/ /\ roundTrip = FALSE
                  /\ pxrPc = "stored"
                  /\ inBytes = <<>>
                  /\ \E len \in 0..(cap + 1), fill \in PxrWireFill :
                         wire = [i \in 1..len |-> fill]
    /\ zlibCalls = 0
    /\ pxrRet = -1
    /\ pxrOutPtr = "null"
    /\ pxrErr = "none"
    /\ pxrTmp = [tmpSize |-> 0, tmpEnd |-> 0, readEnd |-> 0]

\* The early return going through the backend with zero bytes.
EmptyInput_callsZlib(tmpBuf, outBuf, calls) ==
    [ret |-> 0, outPtr |-> "outBuffer", err |-> "none",
     tmp |-> tmpBuf, out |-> outBuf, calls |-> calls + 1,
     book |-> [tmpSize |-> 0, tmpEnd |-> 0, readEnd |-> 0]]

\* The early return of compress() and uncompress() for inSize == 0.
EmptyInput(tmpBuf, outBuf, calls) ==
    [ret |-> 0, outPtr |-> "outBuffer", err |-> "none",
     tmp |-> tmpBuf, out |-> outBuf, calls |-> calls,
     book |-> [tmpSize |-> 0, tmpEnd |-> 0, readEnd |-> 0]]

\* Pxr24Compressor::compress (inPtr, inSize, range, outPtr)
compress(c, tmpBuf, outBuf, calls, in, rng) ==
    IF Len(in) = 0 THEN EmptyInput(tmpBuf, outBuf, calls)
    ELSE LET pre == EncodeBlocks(Blocks(c, rng), 1, in, 0)
             z   == Deflate(pre)
         IN  [ret |-> Len(z), outPtr |-> "outBuffer", err |-> "none",
              tmp |-> StoreAt0(tmpBuf, pre), out |-> StoreAt0(outBuf, z),
              calls |-> calls + 1,
              book |-> [tmpSize |-> 0, tmpEnd |-> Len(pre), readEnd |-> 0]]

\* Pxr24Compressor::uncompress (inPtr, inSize, range, outPtr)
uncompress(c, tmpBuf, outBuf, calls, outPtr, in, rng) ==
    IF Len(in) = 0 THEN EmptyInput(tmpBuf, outBuf, calls)
    ELSE IF ~InflateFits(in, MaxInBytes(c.maxScanLineSize, c.numScanLines))
    THEN [ret |-> -1, outPtr |-> outPtr, err |-> "DecompressionFailure",
          tmp |-> tmpBuf, out |-> outBuf, calls |-> calls + 1,
          book |-> [tmpSize |-> 0, tmpEnd |-> 0, readEnd |-> 0]]
    ELSE LET tmp     == StoreAt0(tmpBuf, Inflate(in))
             tmpSize == Len(Inflate(in))
             r       == DecodeBlocks(Blocks(c, rng), 1, tmp, tmpSize, 0, <<>>, 0)
             book    == [tmpSize |-> tmpSize, tmpEnd |-> r.tmpEnd,
                         readEnd |-> r.readEnd]
             written == StoreAt0(outBuf, r.out)
         IN  IF r.err # "none"
             THEN [ret |-> -1, outPtr |-> outPtr, err |-> r.err,
                   tmp |-> tmp, out |-> written, calls |-> calls + 1,
                   book |-> book]
             ELSE IF r.tmpEnd < tmpSize
             THEN [ret |-> -1, outPtr |-> outPtr, err |-> "TooMuchData",
                   tmp |-> tmp, out |-> written, calls |-> calls + 1,
                   book |-> book]
             ELSE [ret |-> Len(r.out), outPtr |-> "outBuffer", err |-> "none",
                   tmp |-> tmp, out |-> written, calls |-> calls + 1,
                   book |-> book]

PxrReturn(r) ==
    /\ pxrRet' = r.ret
    /\ pxrOutPtr' = r.outPtr
    /\ pxrErr' = r.err
    /\ tmpBuffer' = r.tmp
    /\ outBuffer' = r.out
    /\ zlibCalls' = r.calls
    /\ pxrTmp' = r.book

Compress ==
    /\ pxrPc = "raw"
    /\ PxrReturn(compress(pxr, tmpBuffer, outBuffer, zlibCalls, inBytes, range))
    /\ pxrPc' = "compressed"
    /\ UNCHANGED <<pxr, range, inBytes, wire, roundTrip>>
    /\ UNCHANGED <<f24Vars, hufVars>>

\* The caller keeps the pxrRet bytes at outPtr and later hands them back.
StoreBlock ==
    /\ pxrPc = "compressed"
    /\ wire' = SubSeq(outBuffer, 1, pxrRet)
    /\ pxrPc' = "stored"
    /\ UNCHANGED <<pxr, tmpBuffer, outBuffer, zlibCalls, range, inBytes,
                   roundTrip, pxrRet, pxrOutPtr, pxrErr, pxrTmp>>
    /\ UNCHANGED <<f24Vars, hufVars>>

Uncompress ==
    /\ pxrPc = "stored"
    /\ PxrReturn(uncompress(pxr, tmpBuffer, outBuffer, zlibCalls, pxrOutPtr,
                            wire, range))
    /\ pxrPc' = "uncompressed"
    /\ UNCHANGED <<pxr, range, inBytes, wire, roundTrip>>
    /\ UNCHANGED <<f24Vars, hufVars>>

NextPxr == Compress \/ StoreBlock \/ Uncompress

SpecPxr == InitPxr /\ [][NextPxr]_vars

\* ------------------------------------------------------------------------
\* FastHufDecoder: code books, payloads, construction and decode calls
\* ------------------------------------------------------------------------

\* Longest sequence of codes and runs the caller packs token by token.
HufMaxTokens == 2

\* Run lengths the caller packs after the code of the RLE symbol.
HufRleCounts == {0, 3, 255}

HufPoison == 52685          \* dst before the call (0xcdcd)

\* The packed code lengths: 6-bit and 8-bit fields, most significant bit first.
RECURSIVE FieldBits(_, _)
FieldBits(fields, k) ==
    IF k > Len(fields) THEN <<>>
    ELSE BV(fields[k].w, fields[k].v) \o FieldBits(fields, k + 1)

Lit(lengths) == [i \in 1..Len(lengths) |-> [w |-> 6, v |-> lengths[i]]]

\* numBytes bytes holding the bits, the rest filled with pad.
PackBytes(bits, numBytes, pad) ==
    [j \in 1..numBytes |->
        Val([k \in 1..8 |-> IF 8 * (j - 1) + k <= Len(bits)
                            THEN bits[8 * (j - 1) + k] ELSE pad])]

\* A code book as the caller holds it: the bytes at "table" (the packed
\* lengths and the first byte of what follows them), the constructor's
\* arguments, the code length of every symbol from minSymbol on, and the
\* symbols the caller encodes: syms one by one, run in long runs of runBits
\* bits (64 fill one register, 136 pass both, 200 pass the first reload).  slack is 1 when numBytes counts the following byte as hufUncompress
\* does, 0 when it stops at the last field.
Book(fields, slack, minSymbol, rleSymbol, lengths, syms, run, runBits) ==
    LET bits == FieldBits(fields, 1)
        n    == CeilDiv(Len(bits), 8)
    IN  [table |-> PackBytes(bits, n + 1, 0), numBytes |-> n + slack,
         minSymbol |-> minSymbol, maxSymbol |-> minSymbol + Len(lengths) - 1,
         rleSymbol |-> rleSymbol, lengths |-> lengths, syms |-> syms, run |-> run,
         runBits |-> runBits]

Flat(n, l) == [i \in 1..n |-> l]

\* Two symbols with one-bit codes; no RLE symbol in the alphabet.
BookPair == Book(Lit(<<1, 1>>), 1, 0, 65535, <<1, 1>>, {0, 1}, 1, {200})

\* 2^TABLE_LOOKUP_BITS symbols, all with codes of TABLE_LOOKUP_BITS bits.
BookFlatShort ==
    LET l == Flat(Pow2(TABLE_LOOKUP_BITS), TABLE_LOOKUP_BITS)
    IN  Book(Lit(l), 1, 0, 7, l, {5, Pow2(TABLE_LOOKUP_BITS) - 2},
             Pow2(TABLE_LOOKUP_BITS) - 2, {64, 200})

\* The same lengths with numBytes ending at the last 6-bit field.
BookTight ==
    LET l == Flat(Pow2(TABLE_LOOKUP_BITS), TABLE_LOOKUP_BITS)
    IN  Book(Lit(l), 0, 0, 7, l, {0}, 0, {})

\* Lengths 1, 2, .., TABLE_LOOKUP_BITS + 1, TABLE_LOOKUP_BITS + 1.
LadderLengths ==
    [i \in 1..(TABLE_LOOKUP_BITS + 2) |->
        IF i <= TABLE_LOOKUP_BITS + 1 THEN i ELSE TABLE_LOOKUP_BITS + 1]

BookLadderShortRle ==
    Book(Lit(LadderLengths), 1, 0, 0, LadderLengths, {1, TABLE_LOOKUP_BITS + 1},
         1, {136})

BookLadderLongRle ==
    Book(Lit(LadderLengths), 1, 0, TABLE_LOOKUP_BITS + 1, LadderLengths,
         {0, TABLE_LOOKUP_BITS}, TABLE_LOOKUP_BITS,
         {64, 200})

\* 2^(TABLE_LOOKUP_BITS+1) symbols with codes of TABLE_LOOKUP_BITS + 1 bits:
\* no code is short enough for the acceleration table.
BookFlatLong ==
    LET l == Flat(2 * Pow2(TABLE_LOOKUP_BITS), TABLE_LOOKUP_BITS + 1)
    IN  Book(Lit(l), 1, 0, 0, l, {1, 2 * Pow2(TABLE_LOOKUP_BITS) - 1},
             2 * Pow2(TABLE_LOOKUP_BITS) - 1,
             {64, 136, 200})

\* Symbols 3, 7 and 14 with lengths 1, 2, 2, the gaps packed as zero runs.
BookSparse ==
    Book(<<[w |-> 6, v |-> 1], [w |-> 6, v |-> 60], [w |-> 6, v |-> 2],
           [w |-> 6, v |-> 63], [w |-> 8, v |-> 0], [w |-> 6, v |-> 2]>>,
         1, 3, 14, <<1, 0, 0, 0, 2, 0, 0, 0, 0, 0, 0, 2>>, {3, 7}, 3,
         {64})

\* Lengths 1 and 2: a quarter of the code space stays unassigned.
BookIncomplete ==
    Book(Lit(<<1, 2>>), 1, 0, 65535, <<1, 2>>, {0, 1}, 0, {64})

\* Two codes of length 2 only: half of the table indexes have no symbol id.
BookHalf == Book(Lit(<<2, 0, 0, 2>>), 1, 0, 65535, <<2, 0, 0, 2>>, {0}, 0, {})

\* No symbol has a code.
BookEmpty == Book(Lit(<<0, 0>>), 1, 0, 65535, <<0, 0>>, {}, 0, {})

\* No symbol has a code, and the RLE symbol is the last symbol (as
\* hufUncompress passes it) and not 0xffff.
BookVoid == Book(Lit(<<0, 0>>), 1, 0, 1, <<0, 0>>, {}, 0, {})

HufBooks == {BookPair, BookFlatShort, BookTight, BookLadderShortRle,
             BookLadderLongRle, BookFlatLong, BookSparse, BookIncomplete,
             BookHalf, BookEmpty, BookVoid}

LenOf(book, s) ==
    IF s < book.minSymbol \/ s > book.maxSymbol THEN 0
    ELSE book.lengths[s - book.minSymbol + 1]

\* Kraft sum of the book equal to one, counted in units of 2^-MaxLen.
RECURSIVE KraftFrom(_, _, _)
KraftFrom(lengths, k, maxLen) ==
    IF k > Len(lengths) THEN 0
    ELSE (IF lengths[k] = 0 THEN 0 ELSE Pow2(maxLen - lengths[k]))
         + KraftFrom(lengths, k + 1, maxLen)

BookMaxLen(book) ==
    IF \A k \in 1..Len(book.lengths) : book.lengths[k] = 0 THEN 0
    ELSE CHOOSE l \in 1..MAX_CODE_LEN :
            /\ \E k \in 1..Len(book.lengths) : book.lengths[k] = l
            /\ \A k \in 1..Len(book.lengths) : book.lengths[k] <= l

Complete(book) ==
    /\ BookMaxLen(book) > 0
    /\ KraftFrom(book.lengths, 1, BookMaxLen(book)) = Pow2(BookMaxLen(book))

\* The encoder's canonical codes (hufCanonicalCodeTable): the first code of
\* length MAX_CODE_LEN is 0, the first of length l is half of the first
\* unused code of length l + 1; within a length, codes go up with the symbol.
RECURSIVE RefBase(_, _)
RefBase(lengths, l) ==
    IF l >= MAX_CODE_LEN \/ \A k \in 1..Len(lengths) : lengths[k] <= l THEN 0
    ELSE (RefBase(lengths, l + 1)
          + Cardinality({k \in 1..Len(lengths) : lengths[k] = l + 1})) \div 2

RefCode(book, s) ==
    LET l == LenOf(book, s)
        k == s - book.minSymbol + 1
    IN  BV(l, RefBase(book.lengths, l)
              + Cardinality({j \in 1..(k - 1) : book.lengths[j] = l}))

\* What the caller packs: the code of a symbol, that code n times over, or
\* the code of the RLE symbol followed by an 8-bit run length.
Sym(s) == [k |-> "sym", v |-> s, n |-> 1]
Rle(c) == [k |-> "rle", v |-> c, n |-> c]
Rep(s, n) == [k |-> "rep", v |-> s, n |-> n]

Repeat(bits, n) ==
    [i \in 1..(n * Len(bits)) |-> bits[((i - 1) % Len(bits)) + 1]]

RECURSIVE TokBits(_, _, _)
TokBits(book, toks, i) ==
    IF i > Len(toks) THEN <<>>
    ELSE (IF toks[i].k = "sym" THEN RefCode(book, toks[i].v)
          ELSE IF toks[i].k = "rep"
          THEN Repeat(RefCode(book, toks[i].v), toks[i].n)
          ELSE RefCode(book, book.rleSymbol) \o BV(8, toks[i].v))
         \o TokBits(book, toks, i + 1)

\* Number of elements the tokens stand for.
RECURSIVE TokCount(_, _)
TokCount(toks, i) ==
    IF i > Len(toks) THEN 0 ELSE toks[i].n + TokCount(toks, i + 1)

HufTokens(book) ==
    {Sym(s) : s \in book.syms}
    \cup (IF LenOf(book, book.rleSymbol) > 0 THEN {Rle(c) : c \in HufRleCounts}
          ELSE {})

RECURSIVE HufTokSeqs(_, _)
HufTokSeqs(book, n) ==
    IF n = 0 THEN {<<>>}
    ELSE LET shorter == HufTokSeqs(book, n - 1)
         IN  shorter \cup {Append(q, t) : q \in {x \in shorter : Len(x) = n - 1},
                                          t \in HufTokens(book)}

HufLongRuns(book) ==
    {<<Rep(book.run, CeilDiv(b, LenOf(book, book.run)))>> : b \in book.runBits}

\* The arguments of a decode() call: tokens, the bit the caller's buffer holds
\* behind them, numSrcBits and numDstElems.
HufPayloads(book) ==
    {[toks |-> q, pad |-> pad, srcBits |-> 128, n |-> TokCount(q, 1) + k] :
        q \in HufTokSeqs(book, HufMaxTokens), pad \in {0, 1}, k \in {-1, 0, 1}}
    \cup {[toks |-> q, pad |-> pad, n |-> TokCount(q, 1),
           srcBits |-> IF Len(TokBits(book, q, 1)) > 128
                       THEN Len(TokBits(book, q, 1)) ELSE 128] :
             q \in HufLongRuns(book), pad \in {0, 1}}
    \cup {[toks |-> q, pad |-> 0, srcBits |-> b, n |-> TokCount(q, 1)] :
             q \in HufTokSeqs(book, 1), b \in {127, 136}}

InitHuf ==
    /\ F24Idle
    /\ PxrIdle
    /\ hufPc = "fresh"
    /\ hufBook \in HufBooks
    /\ huf = NoDecoder
    /\ hufSrc = <<>>
    /\ hufSrcBits = 0
    /\ hufN = 0
    /\ hufToks = <<>>
    /\ hufReg = NoRegisters
    /\ hufDst = <<>>
    /\ hufErr = "none"

\* FastHufDecoder fhd (table, numBytes, minSymbol, maxSymbol, rleSymbol)
Construct ==
    /\ hufPc = "fresh"
    /\ \E d \in {FastHufDecoder(hufBook.table, hufBook.numBytes,
                                 hufBook.minSymbol, hufBook.maxSymbol,
                                 hufBook.rleSymbol)} :
        /\ huf' = d
        /\ hufPc' = IF d.err = "none" THEN "built" ELSE "failed"
    /\ UNCHANGED <<hufBook, hufSrc, hufSrcBits, hufN, hufToks, hufReg, hufDst,
                   hufErr>>
    /\ UNCHANGED <<f24Vars, pxrVars>>

\* decode (src, numSrcBits, dst, numDstElems) up to the head of its loop.
DecodeBegin ==
    /\ hufPc = "built"
    /\ \E pl \in HufPayloads(hufBook) :
        /\ pl.n >= 0
        /\ hufToks' = pl.toks
        /\ hufSrcBits' = pl.srcBits
        /\ hufN' = pl.n
        /\ hufSrc' = PackBytes(TokBits(hufBook, pl.toks, 1),
                               IF pl.srcBits < 128 THEN 16
                               ELSE CeilDiv(pl.srcBits, 8), pl.pad)
        /\ hufDst' = [i \in 0..(pl.n - 1) |-> HufPoison]
        /\ IF pl.srcBits < 128
           THEN /\ hufErr' = "InsufficientBits"
                /\ hufPc' = "done"
                /\ hufReg' = NoRegisters
           ELSE /\ hufErr' = "none"
                /\ hufPc' = "decoding"
                /\ hufReg' = decodeInit(hufSrc', pl.srcBits, pl.n)
    /\ UNCHANGED <<hufBook, huf>>
    /\ UNCHANGED <<f24Vars, pxrVars>>

\* One pass through the loop body; an exception ends the call.
DecodeStep ==
    /\ hufPc = "decoding"
    /\ hufReg.dstIdx < hufN
    /\ \E w \in {decodeStep(huf, hufReg, hufDst, hufSrc, hufN)} :
           /\ hufReg' = w.r
           /\ hufDst' = w.dst
           /\ hufErr' = w.r.err
           /\ hufPc' = IF w.r.ub THEN "undefined"
                       ELSE IF w.r.err # "none" THEN "done"
                       ELSE "decoding"
    /\ UNCHANGED <<hufBook, huf, hufSrc, hufSrcBits, hufN, hufToks>>
    /\ UNCHANGED <<f24Vars, pxrVars>>

\* DecodeEnd without the test of numSrcBits.
DecodeEnd_noTrailingTest ==
    /\ hufPc = "decoding"
    /\ hufReg.dstIdx >= hufN
    /\ hufErr' = "none"
    /\ hufPc' = "done"
    /\ UNCHANGED <<hufBook, huf, hufSrc, hufSrcBits, hufN, hufToks, hufReg, hufDst>>
    /\ UNCHANGED <<f24Vars, pxrVars>>

\* The loop exit and the check that no source bits are left.
DecodeEnd ==
    /\ hufPc = "decoding"
    /\ hufReg.dstIdx >= hufN
    /\ hufErr' = IF hufReg.numSrcBits # 0 THEN "TrailingData" ELSE "none"
    /\ hufPc' = "done"
    /\ UNCHANGED <<hufBook, huf, hufSrc, hufSrcBits, hufN, hufToks, hufReg, hufDst>>
    /\ UNCHANGED <<f24Vars, pxrVars>>

Next == Construct \/ DecodeBegin \/ DecodeStep \/ DecodeEnd

Spec == InitHuf /\ [][Next]_vars

\* ------------------------------------------------------------------------
\* FastHufDecoder: construction and destruction over packed tables
\* ------------------------------------------------------------------------

\* Most entries (6-bit fields, a long run counting as one) of a packed table.
CtorMaxFields == 2

\* The entries tables are packed from: no code, the shortest code, the
\* longest code the acceleration table resolves, the first it does not, the
\* longest code, the shortest and the longest short run, a long run.
CtorEntries ==
    {<<[w |-> 6, v |-> v]>> :
        v \in {0, 1, TABLE_LOOKUP_BITS, TABLE_LOOKUP_BITS + 1, MAX_CODE_LEN,
               SHORT_ZEROCODE_RUN, LONG_ZEROCODE_RUN - 1}}
    \cup {<<[w |-> 6, v |-> LONG_ZEROCODE_RUN], [w |-> 8, v |-> 0]>>}

RECURSIVE CtorFields(_)
CtorFields(n) ==
    IF n = 0 THEN {<<>>}
    ELSE LET shorter == CtorFields(n - 1)
         IN  shorter \cup {q \o e : q \in shorter, e \in CtorEntries}

\* The code lengths a sequence of fields stands for, symbol by symbol.
RECURSIVE FieldLengths(_, _)
FieldLengths(fields, k) ==
    IF k > Len(fields) THEN <<>>
    ELSE IF fields[k].v = LONG_ZEROCODE_RUN
    THEN Flat(fields[k + 1].v + SHORTEST_LONG_RUN, 0) \o FieldLengths(fields, k + 2)
    ELSE IF fields[k].v >= SHORT_ZEROCODE_RUN
    THEN Flat(fields[k].v - SHORT_ZEROCODE_RUN + 2, 0) \o FieldLengths(fields, k + 1)
    ELSE <<fields[k].v>> \o FieldLengths(fields, k + 1)

\* A table of the given fields for numSymbols symbols from 0 on; numBytes is
\* the bytes the fields take plus slack.
CtorBook(fields, slack, numSymbols) ==
    LET l == FieldLengths(fields, 1)
    IN  Book(fields, slack, 0, 65535,
             [i \in 1..numSymbols |-> IF i <= Len(l) THEN l[i] ELSE 0],
             {}, 0, {})

\* Four 6-bit lengths in exactly three bytes.
BookFourInThree == CtorBook(Lit(<<2, 2, 2, 2>>), 0, 4)

\* The tables of the given fields: with as many symbols as the fields stand
\* for, one less and one more, and with numBytes ending behind, at and in
\* front of the last byte of the fields.
CtorVariants(fields) ==
    LET n == Len(FieldLengths(fields, 1))
    IN  {CtorBook(fields, 1, k) : k \in {n - 1, n, n + 1} \ {0}}
        \cup {CtorBook(fields, slack, n) : slack \in {-1, 0}}

\* Every table of at most CtorMaxFields entries, and the code books of the
\* decode calls.
CtorBooks ==
    HufBooks
    \cup {BookFourInThree}
    \cup UNION {CtorVariants(f) : f \in CtorFields(CtorMaxFields) \ {<<>>}}

InitCtor ==
    /\ F24Idle
    /\ PxrIdle
    /\ hufPc = "fresh"
    /\ hufBook \in CtorBooks
    /\ huf = NoDecoder
    /\ hufSrc = <<>>
    /\ hufSrcBits = 0
    /\ hufN = 0
    /\ hufToks = <<>>
    /\ hufReg = NoRegisters
    /\ hufDst = <<>>
    /\ hufErr = "none"

\* FastHufDecoder::~FastHufDecoder: "delete[] _idToSymbol" does nothing to a
\* null pointer and releases what any other pointer points to.
destroy(d) ==
    IF d.idAlloc = "null" THEN d
    ELSE [d EXCEPT !.idAlloc = "dangling", !.idFrees = d.idFrees + 1]

\* The decoder goes out of scope.  No destructor runs for an object whose
\* constructor threw.
Destroy ==
    /\ hufPc = "built"
    /\ huf' = destroy(huf)
    /\ hufPc' = "destroyed"
    /\ UNCHANGED <<hufBook, hufSrc, hufSrcBits, hufN, hufToks, hufReg, hufDst,
                   hufErr>>
    /\ UNCHANGED <<f24Vars, pxrVars>>

NextCtor == Construct \/ Destroy

SpecCtor == InitCtor /\ [][NextCtor]_vars

\* ------------------------------------------------------------------------
\* Properties of floatToFloat24 (checked under SpecF24)
\* ------------------------------------------------------------------------

\* Fields of a binary32 pattern and of a 24-bit pattern held in a 32-bit word.
F32Exp(f)  == SubSeq(f, 2, 9)
F32Man(f)  == SubSeq(f, 10, 32)
F24Sign(i) == i[9]
F24Exp(i)  == SubSeq(i, 10, 17)
F24Man(i)  == SubSeq(i, 18, 32)

IsNaN32(f)    == F32Exp(f) = Ones(8) /\ F32Man(f) # Zeros(23)
IsInf32(f)    == F32Exp(f) = Ones(8) /\ F32Man(f) = Zeros(23)
IsFinite32(f) == F32Exp(f) # Ones(8)

F24Quantized == f24Pc \in {"quantized", "expanded"}

\* C4: floatToFloat24 keeps the IEEE class and the sign of every input: the
\* sign bit becomes bit 23 (and nothing is set above it), an infinity stays
\* an infinity, a NaN stays a NaN (exponent all-ones, 15-bit significand
\* nonzero), and a finite input gets an exponent field that is not all-ones.
C4_ClassPreserved ==
    F24Quantized =>
        /\ F24Sign(f24Out) = f24In[1]
        /\ SubSeq(f24Out, 1, 8) = Zeros(8)
        /\ IsInf32(f24In) => (F24Exp(f24Out) = Ones(8) /\ F24Man(f24Out) = Zeros(15))
        /\ IsNaN32(f24In) => (F24Exp(f24Out) = Ones(8) /\ F24Man(f24Out) # Zeros(15))
        /\ IsFinite32(f24In) => F24Exp(f24Out) # Ones(8)

\* A finite input next to FLT_MAX whose rounded significand carries into the
\* exponent has been quantized.
C4_Witness ==
    /\ f24Pc = "quantized"
    /\ f24In = F32(0, 254, 8388480)            \* 0x7f7fff80
    /\ f24Out = Hex32(127, 32767)              \* 0x007f7fff

OnePlusEps == Hex32(16256, 256)                \* 0x3f800100 = 1.0f + 2^-15
OneF       == Hex32(16256, 0)                  \* 0x3f800000 = 1.0f

\* C5 as stated: 1.0f + 2^-15 decodes to exactly 1.0f, and 1.0f quantizes to
\* 0x3f8000 and decodes to 1.0f.
C5_Original ==
    /\ (f24Pc = "expanded" /\ f24In = OnePlusEps) => f24Back = OneF
    /\ (f24Pc = "expanded" /\ f24In = OneF) =>
           (f24Out = Hex32(63, 32768) /\ f24Back = OneF)

\* C5 amended: 1.0f + 2^-15 is representable in 24 bits: it quantizes to
\* 0x3f8001 and decodes to itself (0x3f800100); 1.0f quantizes to 0x3f8000
\* and decodes to 1.0f.
C5_Amended ==
    /\ (f24Pc = "expanded" /\ f24In = OnePlusEps) =>
           (f24Out = Hex32(63, 32769) /\ f24Back = OnePlusEps)
    /\ (f24Pc = "expanded" /\ f24In = OneF) =>
           (f24Out = Hex32(63, 32768) /\ f24Back = OneF)

\* 1.0f + 2^-15 has been quantized and expanded again.
C5_Witness == f24Pc = "expanded" /\ f24In = OnePlusEps

\* ------------------------------------------------------------------------
\* Properties of Pxr24Compressor (checked under SpecPxr)
\* ------------------------------------------------------------------------

\* Offsets of block k in the pixel data and in the preprocessed stream.
RECURSIVE InPosOf(_, _)
InPosOf(blocks, k) ==
    IF k <= 1 THEN 0
    ELSE InPosOf(blocks, k - 1)
         + InBytesPerSample(blocks[k - 1].type) * blocks[k - 1].n

RECURSIVE TmpPosOf(_, _)
TmpPosOf(blocks, k) ==
    IF k <= 1 THEN 0
    ELSE TmpPosOf(blocks, k - 1) + PlaneCount(blocks[k - 1].type) * blocks[k - 1].n

LosslessChannels(c) ==
    \A i \in 1..Len(c.channels) : c.channels[i].type \in {"UINT", "HALF"}

\* C2: for channel lists of UINT and HALF channels only, uncompress of what
\* compress produced (deflate being a lossless identity) returns the input's
\* byte count and bytes; in the preprocessed stream the first difference of
\* every (row, channel) block is the sample itself (predecessor 0) and every
\* later sample is predecessor + difference modulo 2^32 (of which a HALF
\* keeps the low 16 bits).
C2_LosslessRoundTrip ==
    /\ (pxrPc = "uncompressed" /\ roundTrip /\ LosslessChannels(pxr)) =>
          /\ pxrErr = "none"
          /\ pxrOutPtr = "outBuffer"
          /\ pxrRet = Len(inBytes)
          /\ SubSeq(outBuffer, 1, pxrRet) = inBytes
    /\ (pxrPc = "compressed" /\ inBytes # <<>> /\ LosslessChannels(pxr)) =>
          LET blocks == Blocks(pxr, range)
          IN  \A k \in 1..Len(blocks) : \A j \in 0..(blocks[k].n - 1) :
                  LET sum == BAdd(IF j = 0 THEN Zeros(32)
                                  ELSE SampleValue(blocks[k].type, inBytes,
                                                   InPosOf(blocks, k), j - 1),
                                  DecodeDiff(blocks[k].type, blocks[k].n, tmpBuffer,
                                             TmpPosOf(blocks, k), j))
                      val == SampleValue(blocks[k].type, inBytes, InPosOf(blocks, k), j)
                  IN  IF blocks[k].type = "HALF"
                      THEN SubSeq(sum, 17, 32) = SubSeq(val, 17, 32)
                      ELSE sum = val

\* A HALF and a UINT channel with different samplings went through compress
\* and uncompress with more than two samples.
C2_Witness ==
    /\ pxrPc = "uncompressed"
    /\ roundTrip
    /\ pxr.channels = <<Ch("HALF", 2, 1), Ch("UINT", 1, 2)>>
    /\ Len(inBytes) >= 10
    /\ SubSeq(outBuffer, 1, pxrRet) = inBytes

\* C3: every FLOAT sample comes back from compress + uncompress as
\* floatToFloat24 (f) << 8, whatever its neighbours in the row are, and so
\* with its low 8 bits zero.
C3_FloatRoundTrip ==
    (pxrPc = "uncompressed" /\ roundTrip /\ inBytes # <<>>) =>
        /\ pxrErr = "none"
        /\ LET blocks == Blocks(pxr, range)
           IN  \A k \in 1..Len(blocks) :
                 blocks[k].type = "FLOAT" =>
                   \A j \in 0..(blocks[k].n - 1) :
                     LET p    == InPosOf(blocks, k) + 4 * j
                         fIn  == HostWord(inBytes[p + 1], inBytes[p + 2],
                                          inBytes[p + 3], inBytes[p + 4])
                         fOut == HostWord(outBuffer[p + 1], outBuffer[p + 2],
                                          outBuffer[p + 3], outBuffer[p + 4])
                     IN  /\ fOut = Shl(floatToFloat24(fIn), 8)
                         /\ SubSeq(fOut, 25, 32) = Zeros(8)

\* A row of at least two different FLOAT samples went through compress and
\* uncompress.
C3_Witness ==
    /\ pxrPc = "uncompressed"
    /\ roundTrip
    /\ pxr.channels = <<Ch("FLOAT", 1, 1)>>
    /\ Len(inBytes) >= 8
    /\ SubSeq(inBytes, 1, 4) # SubSeq(inBytes, 5, 8)

\* C6: a call of compress or uncompress with inSize == 0 returns 0 with
\* outPtr = _outBuffer, makes no backend call and leaves _tmpBuffer and
\* _outBuffer as they were.
C6_EmptyInput ==
    [][ ((pxrPc = "raw" /\ Len(inBytes) = 0) \/ (pxrPc = "stored" /\ Len(wire) = 0))
        => /\ pxrRet' = 0
           /\ pxrOutPtr' = "outBuffer"
           /\ pxrErr' = "none"
           /\ zlibCalls' = zlibCalls
           /\ tmpBuffer' = tmpBuffer
           /\ outBuffer' = outBuffer ]_vars

\* compress was called with inSize == 0 on a rectangle that has samples.
C6_Witness ==
    /\ pxrPc = "compressed"
    /\ inBytes = <<>>
    /\ SamplesIn(Blocks(pxr, range), 1) > 0
    /\ pxrRet = 0

\* Bytes the preprocessed stream must hold for a call: the sum over the rows
\* of the range and their non-skipped channels of planes * samples.
RECURSIVE RowPlaneBytes(_, _, _, _, _)
RowPlaneBytes(channels, ci, y, minX, maxX) ==
    IF ci = 0 THEN 0
    ELSE (IF y % channels[ci].ySampling = 0
          THEN PlaneCount(channels[ci].type)
                   * Cardinality({x \in minX..maxX : x % channels[ci].xSampling = 0})
          ELSE 0)
         + RowPlaneBytes(channels, ci - 1, y, minX, maxX)

RECURSIVE RowsPlaneBytes(_, _, _, _, _)
RowsPlaneBytes(channels, y, maxY, minX, maxX) ==
    IF y > maxY THEN 0
    ELSE RowPlaneBytes(channels, Len(channels), y, minX, maxX)
         + RowsPlaneBytes(channels, y + 1, maxY, minX, maxX)

ExpectedTmpSize ==
    RowsPlaneBytes(pxr.channels, range.minY, Min(range.maxY, pxr.maxY),
                   range.minX, Min(range.maxX, pxr.maxX))

Inflated == pxrPc = "uncompressed" /\ wire # <<>> /\ pxrErr # "DecompressionFailure"

\* C10: an uncompress call that inflated tmpSize bytes returns normally
\* exactly when tmpSize is the sum of planes * samples over the traversal;
\* when the sum is larger it raises NotEnoughData without having read a byte
\* at or beyond tmpSize; when the sum is smaller it raises TooMuchData with
\* the traversal complete.
C10_SizeAgreement ==
    Inflated =>
        /\ (pxrErr = "none") <=> (pxrTmp.tmpSize = ExpectedTmpSize)
        /\ pxrTmp.readEnd <= pxrTmp.tmpSize
        /\ (ExpectedTmpSize > pxrTmp.tmpSize) => pxrErr = "NotEnoughData"
        /\ (ExpectedTmpSize < pxrTmp.tmpSize) =>
               (pxrErr = "TooMuchData" /\ pxrTmp.tmpEnd = ExpectedTmpSize)

\* uncompress read some blocks and then met one that overshoots.
C10_Witness ==
    /\ Inflated
    /\ pxrErr = "NotEnoughData"
    /\ pxrTmp.readEnd > 0
    /\ pxrTmp.tmpEnd > pxrTmp.tmpSize

\* ------------------------------------------------------------------------
\* Properties of FastHufDecoder (checked under Spec)
\* ------------------------------------------------------------------------

\* Bit k (0-based, most significant bit of byte 0 first) of the bytes at src,
\* zero past their end, and the n bits from bit pos on.
StreamBit(src, k) ==
    IF k \div 8 >= Len(src) THEN 0
    ELSE (src[(k \div 8) + 1] \div Pow2(7 - (k % 8))) % 2

StreamBits(src, pos, n) == [i \in 1..n |-> StreamBit(src, pos + i - 1)]

\* Bits of src that decode() has shifted out of buffer so far.
HufPos(r) == r.loaded - r.bufferNumBits - r.bufferBackNumBits

\* The symbols a sequence of plain codes stands for.
RECURSIVE TokSymbols(_, _)
TokSymbols(toks, i) ==
    IF i > Len(toks) THEN <<>>
    ELSE [j \in 1..toks[i].n |-> toks[i].v] \o TokSymbols(toks, i + 1)

PlainTokens(book, toks) ==
    \A i \in 1..Len(toks) :
        toks[i].k \in {"sym", "rep"} /\ toks[i].v # book.rleSymbol

RleErrors == {"RleBeforeFirst", "RleOverrun", "RleInvalid"}

\* src holds the codes of the symbols of hufToks, none of them the RLE
\* symbol, followed by zero bits only; numSrcBits is at least 128 and
\* numDstElems is the number of symbols.
EncodedSymbols ==
    /\ Complete(hufBook)
    /\ PlainTokens(hufBook, hufToks)
    /\ hufSrcBits >= 128
    /\ hufSrcBits >= Len(TokBits(hufBook, hufToks, 1))
    /\ hufSrc = PackBytes(TokBits(hufBook, hufToks, 1), Len(hufSrc), 0)
    /\ hufN = TokCount(hufToks, 1)

\* C1 as stated: for every complete canonical code book the constructor
\* accepts, code books without a code of at most TABLE_LOOKUP_BITS bits
\* included, decode() of the zero-padded codes of a symbol sequence S with
\* numDstElems = |S| ends with dst = S and without an InvalidSymbol or RLE
\* error.
C1_RoundTrip ==
    (hufPc = "done" /\ EncodedSymbols)
    => /\ hufErr \notin ({"InvalidSymbol"} \cup RleErrors)
       /\ hufDst = [i \in 0..(hufN - 1) |-> TokSymbols(hufToks, 1)[i + 1]]

\* The smallest length in [_minCodeLength, _maxCodeLength] whose left-justified
\* base is at most buffer, and the symbol the search finds with it.
SmallestLen(d, buffer) ==
    CHOOSE l \in d.minCodeLength..d.maxCodeLength :
        /\ ULe(d.ljBase[l], buffer)
        /\ \A k \in d.minCodeLength..(l - 1) : ~ULe(d.ljBase[k], buffer)

LinearSearch(d, buffer) ==
    LET l  == SmallestLen(d, buffer)
        id == BAdd(d.ljOffset[l], Shr(buffer, 64 - l))
    IN  [codeLen |-> l,
         symbol |-> IF ULt(id, BV(64, d.numSymbols)) THEN d.idToSymbol[Val(id)]
                    ELSE -2]

\* The low 64 - TABLE_LOOKUP_BITS bits the buffers of C7 are completed with.
LowBits ==
    LET w == 64 - TABLE_LOOKUP_BITS
    IN  {Zeros(w), Ones(w), <<1>> \o Zeros(w - 1), Zeros(w - 1) \o <<1>>,
         <<0>> \o Ones(w - 1)}

ShortCodeCovers(d, p) ==
    \E l \in 0..TABLE_LOOKUP_BITS :
        ULe(d.ljBase[l], Shl(BV(64, p), 64 - TABLE_LOOKUP_BITS))

\* C7: in a successfully constructed decoder, for every TABLE_LOOKUP_BITS-bit
\* prefix p with _ljBase[L] <= p << (64 - TABLE_LOOKUP_BITS) for some
\* L <= TABLE_LOOKUP_BITS, the table entry (_tableCodeLen[p], _tableSymbol[p])
\* is the (codeLen, symbol) of the linear search over the code lengths in use
\* (smallest L with _ljBase[L] <= buffer, id = _ljOffset[L] + (buffer >>
\* (64 - L)), symbol = _idToSymbol[id]) for every buffer whose top bits are p.
C7_TableAgreesWithSearch ==
    hufPc = "built"
    => \A p \in 0..(Pow2(TABLE_LOOKUP_BITS) - 1) :
          ShortCodeCovers(huf, p)
          => \A low \in LowBits :
                LinearSearch(huf, BV(TABLE_LOOKUP_BITS, p) \o low)
                = [codeLen |-> huf.tableCodeLen[p], symbol |-> huf.tableSymbol[p]]

\* A decoder with codes of 1 .. TABLE_LOOKUP_BITS + 1 bits was built: some
\* prefixes are covered by codes shorter than the index, one is not.
C7_Witness ==
    /\ hufPc = "built"
    /\ hufBook = BookLadderShortRle
    /\ \E p \in 0..(Pow2(TABLE_LOOKUP_BITS) - 1) :
          ShortCodeCovers(huf, p) /\ huf.tableCodeLen[p] < TABLE_LOOKUP_BITS
    /\ \E p \in 0..(Pow2(TABLE_LOOKUP_BITS) - 1) : ~ShortCodeCovers(huf, p)

\* A pass through the loop body that found the RLE symbol, and the 8 bits
\* that follow its code in src.
RleDecoded ==
    /\ hufPc = "decoding"
    /\ hufReg.dstIdx < hufN
    /\ hufPc' \in {"decoding", "done"}
    /\ hufReg'.symbol = huf.rleSymbol

RleCountInSrc == Val(StreamBits(hufSrc, HufPos(hufReg) + hufReg'.codeLen, 8))

RleExpands ==
    (/\ RleDecoded
     /\ hufReg.dstIdx >= 1
     /\ RleCountInSrc >= 1
     /\ hufReg.dstIdx + RleCountInSrc <= hufN)
    => /\ hufErr' = "none"
       /\ hufReg'.dstIdx = hufReg.dstIdx + RleCountInSrc
       /\ hufDst' = [i \in 0..(hufN - 1) |->
                        IF i >= hufReg.dstIdx /\ i < hufReg.dstIdx + RleCountInSrc
                        THEN hufDst[hufReg.dstIdx - 1] ELSE hufDst[i]]
       /\ HufPos(hufReg') = HufPos(hufReg) + hufReg'.codeLen + 8
       /\ \A i \in 0..(hufReg'.dstIdx - 1) : hufDst'[i] # huf.rleSymbol

FiveThenRunOfThree ==
    /\ hufBook = BookFlatShort
    /\ hufToks = <<Sym(5), Rle(3)>>
    /\ hufN = 4
    /\ hufPc = "done"

\* C8: a pass of decode() that finds the RLE symbol with dstIdx >= 1, while
\* the 8 bits c behind its code satisfy c >= 1 and dstIdx + c <= numDstElems,
\* throws nothing, stores c copies of dst[dstIdx - 1] from dstIdx on, leaves
\* the rest of dst alone, advances dstIdx by c, shifts out the code and those
\* 8 bits and nothing more, and no element written so far is the RLE symbol;
\* symbol 5, the RLE symbol 7 and count 3 give dst = [5, 5, 5, 5].
C8_RleExpansion ==
    /\ [][RleExpands]_vars
    /\ [](FiveThenRunOfThree
          => hufErr = "none" /\ hufDst = [i \in 0..3 |-> 5])

C8_Witness ==
    /\ FiveThenRunOfThree
    /\ hufReg.rleCount = 3
    /\ hufReg.dstIdx = 4
    /\ hufDst = [i \in 0..3 |-> 5]

RleRejected(err) == hufErr' = err /\ hufPc' = "done" /\ hufDst' = hufDst

RleGuards ==
    RleDecoded
    => /\ hufReg.dstIdx < 1 => RleRejected("RleBeforeFirst")
       /\ (hufReg.dstIdx >= 1 /\ hufReg.dstIdx + RleCountInSrc > hufN)
          => RleRejected("RleOverrun")
       /\ (hufReg.dstIdx >= 1 /\ hufReg.dstIdx + RleCountInSrc <= hufN
           /\ RleCountInSrc = 0)
          => RleRejected("RleInvalid")

\* C9: for every table and payload, decode() stores only into
\* dst[0 .. numDstElems - 1] and reads dst[dstIdx - 1] only with dstIdx >= 1;
\* an RLE symbol met at dstIdx = 0 throws RleBeforeFirst, one (at dstIdx >= 1)
\* whose run would pass numDstElems throws RleOverrun, one (passing both
\* tests) with a count of 0 throws RleInvalid, each with dst as it was before
\* the run.
C9_RleMemorySafety ==
    /\ [](hufReg.oob = FALSE)
    /\ [][RleGuards]_vars

\* A run that would pass the end of dst was rejected after a first symbol
\* had been stored.
C9_Witness ==
    /\ hufPc = "done"
    /\ hufErr = "RleOverrun"
    /\ hufReg.dstIdx >= 1
    /\ hufReg.dstIdx + hufReg.rleCount > hufN
    /\ \A i \in hufReg.dstIdx..(hufN - 1) : hufDst[i] = HufPoison

\* ------------------------------------------------------------------------
\* Properties of the FastHufDecoder constructor (checked under SpecCtor)
\* ------------------------------------------------------------------------

\* The constructor has returned or thrown.
Constructed == hufPc \in {"built", "failed", "destroyed"}

\* The packed code lengths read field by field from bit pos of book.table on,
\* for the symbols from symbol to maxSymbol: a value of 0..58 is the code
\* length of one symbol, 59..62 stand for 2..5 symbols without a code, 63 and
\* the next 8 bits k for k + 6 of them.  TableTruncated when a field has a bit
\* in a byte at or behind offset numBytes, TableOverrun when a run passes
\* maxSymbol.
RECURSIVE PackedLengths(_, _, _, _)
PackedRun(book, pos, symbol, lengths, run) ==
    IF symbol + run - 1 > book.maxSymbol
    THEN [err |-> "TableOverrun", lengths |-> lengths]
    ELSE PackedLengths(book, pos, symbol + run, lengths \o Flat(run, 0))

PackedLengths(book, pos, symbol, lengths) ==
    IF symbol > book.maxSymbol THEN [err |-> "none", lengths |-> lengths]
    ELSE IF (pos + 5) \div 8 >= book.numBytes
    THEN [err |-> "TableTruncated", lengths |-> lengths]
    ELSE LET v == Val(StreamBits(book.table, pos, 6))
         IN  IF v = 63
             THEN IF (pos + 13) \div 8 >= book.numBytes
                  THEN [err |-> "TableTruncated", lengths |-> lengths]
                  ELSE PackedRun(book, pos + 14, symbol, lengths,
                                 Val(StreamBits(book.table, pos + 6, 8)) + 6)
             ELSE IF v >= 59
             THEN PackedRun(book, pos + 6, symbol, lengths, v - 57)
             ELSE PackedLengths(book, pos + 6, symbol + 1, Append(lengths, v))

Packed == PackedLengths(hufBook, 0, hufBook.minSymbol, <<>>)

\* C11 as stated: the constructor throws TableTruncated exactly when the next
\* 6-bit field, or the 8-bit count of a long run, has a bit in a byte at or
\* behind offset numBytes of the table; fields that lie within the numBytes
\* bytes are read (four 6-bit lengths in exactly three bytes are accepted).
C11_TableTruncated ==
    Constructed
    => ((huf.err = "TableTruncated") <=> (Packed.err = "TableTruncated"))

\* The (symbol << 6) | codeLen entries of the symbols with a code.
RECURSIVE CodedSymbols(_, _, _)
CodedSymbols(lengths, k, minSymbol) ==
    IF k > Len(lengths) THEN <<>>
    ELSE (IF lengths[k] = 0 THEN <<>>
          ELSE <<(minSymbol + k - 1) * 64 + lengths[k]>>)
         \o CodedSymbols(lengths, k + 1, minSymbol)

\* C12: when the scan of the table is not cut short by numBytes, the
\* constructor gives every symbol from minSymbol to maxSymbol the length its
\* field stands for (v in 1..58 a code of v bits for one symbol, 0 none,
\* 59..62 none for v - 57 symbols, 63 with the next 8 bits k none for k + 6
\* symbols); it throws TableOverrun exactly when a run reaches past maxSymbol,
\* a run ending at maxSymbol being accepted.
C12_RunDecoding ==
    (Constructed /\ huf.err # "TableTruncated" /\ Packed.err # "TableTruncated")
    => /\ (huf.err = "TableOverrun") <=> (Packed.err = "TableOverrun")
       /\ Packed.err = "none"
          => /\ huf.symbols = CodedSymbols(Packed.lengths, 1, hufBook.minSymbol)
             /\ Len(Packed.lengths) = hufBook.maxSymbol - hufBook.minSymbol + 1

\* A one-bit code, then a long run of six symbols that ends at maxSymbol.
C12_Witness ==
    /\ Constructed
    /\ hufBook = CtorBook(<<[w |-> 6, v |-> 1], [w |-> 6, v |-> 63],
                            [w |-> 8, v |-> 0]>>, 1, 7)
    /\ huf.err \notin {"TableTruncated", "TableOverrun"}
    /\ huf.symbols = <<1>>
    /\ Packed.lengths = <<1, 0, 0, 0, 0, 0, 0>>

\* A decoder exists: the constructor returned.
Built == hufPc \in {"built", "destroyed"}

\* C14 as stated: every decoder whose construction succeeds, whatever the
\* table bytes (a table that gives no symbol a code included), has
\* 1 <= _minCodeLength <= _maxCodeLength <= 58.
C14_CodeLengthRange ==
    Built
    => /\ 1 <= huf.minCodeLength
       /\ huf.minCodeLength <= huf.maxCodeLength
       /\ huf.maxCodeLength <= 58

\* C15 as stated: in a constructed decoder base[L] and _ljBase[L] are
\* 0xffffffffffffffff for every L in 0..58 with codeCount[L] = 0, the unused
\* lengths between _minCodeLength and _maxCodeLength included.
C15_BaseSentinel ==
    Built
    => \A l \in 0..58 :
          huf.codeCount[l] = 0
          => huf.base[l] = Ones(64) /\ huf.ljBase[l] = Ones(64)

\* The top l bits of the TABLE_LOOKUP_BITS-bit index i, and whether one of
\* the codes of l bits (base[l] .. base[l] + codeCount[l] - 1) is a prefix
\* of i.
TopBits(i, l) == i \div Pow2(TABLE_LOOKUP_BITS - l)

ShortCodePrefixes(d, i) ==
    \E l \in 1..TABLE_LOOKUP_BITS :
        /\ d.codeCount[l] > 0
        /\ IsSmall(d.base[l])
        /\ Val(d.base[l]) <= TopBits(i, l)
        /\ TopBits(i, l) < Val(d.base[l]) + d.codeCount[l]

\* C16 as stated: in a constructed decoder, for every index i of the
\* acceleration table, _tableCodeLen[i] = 0 if and only if no code of at most
\* TABLE_LOOKUP_BITS bits is a prefix of i, and no entry of _tableCodeLen is
\* above TABLE_LOOKUP_BITS.
C16_TableEmptiness ==
    Built
    => \A i \in 0..(Pow2(TABLE_LOOKUP_BITS) - 1) :
          /\ (huf.tableCodeLen[i] = 0) <=> ~ShortCodePrefixes(huf, i)
          /\ huf.tableCodeLen[i] <= TABLE_LOOKUP_BITS

\* ------------------------------------------------------------------------
\* Further properties of FastHufDecoder::decode (checked under Spec)
\* ------------------------------------------------------------------------

\* numSrcBits less every bit loaded into buffer and bufferBack so far, not
\* below 0.
SrcBitsLeft ==
    IF hufSrcBits > hufReg.loaded THEN hufSrcBits - hufReg.loaded ELSE 0

\* C13: a decode() call given fewer than 128 source bits throws
\* InsufficientBits with nothing read and dst untouched; a call that has
\* produced its numDstElems elements throws TrailingData when source bits
\* are left that were never loaded and returns normally otherwise; no call
\* returns normally in any other way.
C13_TrailingData ==
    /\ (hufPc = "done" /\ hufSrcBits < 128)
       => /\ hufErr = "InsufficientBits"
          /\ hufReg = NoRegisters
          /\ \A i \in DOMAIN hufDst : hufDst[i] = HufPoison
    /\ (hufPc = "done" /\ hufSrcBits >= 128 /\ hufReg.dstIdx >= hufN)
       => hufErr = (IF SrcBitsLeft # 0 THEN "TrailingData" ELSE "none")
    /\ (hufPc = "done" /\ hufErr = "none")
       => hufSrcBits >= 128 /\ hufReg.dstIdx >= hufN /\ SrcBitsLeft = 0

\* One element was decoded from 136 source bits: the last byte was never
\* loaded.
C13_Witness ==
    /\ hufPc = "done"
    /\ hufSrcBits = 136
    /\ hufN = 1
    /\ hufReg.dstIdx = 1
    /\ hufReg.loaded = 128
    /\ hufErr = "TrailingData"

\* The last pass through the loop of decode took the acceleration path and
\* read 0 from _tableCodeLen.
ZeroLengthHit ==
    /\ hufPc \in {"decoding", "done", "undefined"}
    /\ hufReg.path = "table"
    /\ hufReg.codeLen = 0

\* C17 as stated: a pass of decode that takes the acceleration path and finds
\* _tableCodeLen[tableIdx] = 0 accepts no symbol (it stores nothing and ends
\* in an exception), and the call ends with InvalidSymbol: it does not return
\* normally and throws no other error.
C17_ZeroLengthHit ==
    ZeroLengthHit
    => /\ hufReg.err # "none"
       /\ hufPc = "done" => hufErr = "InvalidSymbol"

\* C18 as stated: in a decoder whose code book has no code of
\* TABLE_LOOKUP_BITS bits or fewer _tableMin is 0xffffffffffffffff and decode
\* never takes the acceleration path; and whenever decode takes the
\* acceleration path, the code length it consumes is between 1 and
\* TABLE_LOOKUP_BITS.
C18_TableMinGuard ==
    /\ (hufPc \in {"built", "decoding", "done", "undefined"}
        /\ \A l \in 1..TABLE_LOOKUP_BITS : huf.codeCount[l] = 0)
       => /\ huf.tableMin = Ones(64)
          /\ hufReg.path # "table"
    /\ (hufPc \in {"decoding", "done", "undefined"} /\ hufReg.path = "table")
       => (1 <= hufReg.codeLen /\ hufReg.codeLen <= TABLE_LOOKUP_BITS)

\* C19: the _idToSymbol array is released exactly once on every path through
\* the constructor and the destructor.  It is never released more often than
\* it was allocated; when the constructor throws, whatever it allocated has
\* been released and _idToSymbol is null; when the constructor returns, the
\* array is allocated, live and not released; and once the destructor has
\* run it has been released exactly once.
C19_IdToSymbolOwnership ==
    /\ huf.idFrees <= huf.idNews
    /\ hufPc = "failed"
       => (huf.idFrees = huf.idNews /\ huf.idAlloc = "null")
    /\ hufPc = "built"
       => (huf.idNews = 1 /\ huf.idFrees = 0 /\ huf.idAlloc = "live")
    /\ hufPc = "destroyed"
       => (huf.idNews = 1 /\ huf.idFrees = 1 /\ huf.idAlloc # "live")

\* buildTables has thrown after the allocation (BookHalf: "Overrun"), and the
\* array has been released.
C19_Witness ==
    /\ hufPc = "failed"
    /\ hufBook = BookHalf
    /\ huf.err = "InvalidTable"
    /\ huf.ljBase # <<>>
    /\ huf.idNews = 1
    /\ huf.idFrees = 1

\* The table scan ended without an exception and gave some symbol a code of
\* MAX_CODE_LEN bits.
HasMaxLenCode ==
    /\ Constructed
    /\ \E k \in 1..Len(huf.symbols) : huf.symbols[k] % 64 = MAX_CODE_LEN

\* C20: _numSymbols leaves out codeCount[MAX_CODE_LEN], so every table that
\* gives a symbol a code of MAX_CODE_LEN (58) bits makes the constructor
\* throw InvalidTable in the id -> symbol fill, before buildTables; no
\* constructed decoder has a code of 58 bits, and in a constructed decoder
\* every scanned symbol has got an id below _numSymbols.
C20_MaxLengthCodes ==
    /\ HasMaxLenCode
       => (hufPc = "failed" /\ huf.err = "InvalidTable" /\ huf.ljBase = <<>>)
    /\ Built
       => /\ huf.codeCount[MAX_CODE_LEN] = 0
          /\ Len(huf.symbols) = huf.numSymbols
          /\ DOMAIN huf.idToSymbol = 0..(huf.numSymbols - 1)
          /\ \A id \in DOMAIN huf.idToSymbol : huf.idToSymbol[id] # HufUninit

\* A table with a code of 1 bit and a code of 58 bits has been refused.
C20_Witness ==
    /\ hufPc = "failed"
    /\ huf.symbols = <<1, 64 + MAX_CODE_LEN>>
    /\ huf.err = "InvalidTable"
    /\ huf.numSymbols = 1

\* C21: in every decode call on a constructed decoder the count of valid bits
\* of buffer stays within 0..64 and is at least TABLE_LOOKUP_BITS at the head
\* of every pass of the loop, the count of valid bits of bufferBack stays
\* within 0..64, and no shift with a count outside 0..63 is executed; the
\* shifts of refill by 64 - numBits are defined only for 1 <= numBits <= 64,
\* so every refill is asked for between 1 and 64 bits.
C21_BitRegisters ==
    /\ hufPc # "undefined"
    /\ hufPc \in {"decoding", "done"} /\ hufErr # "InsufficientBits"
       => /\ ~hufReg.ub
          /\ 0 <= hufReg.bufferNumBits /\ hufReg.bufferNumBits <= 64
          /\ 0 <= hufReg.bufferBackNumBits /\ hufReg.bufferBackNumBits <= 64
    /\ hufPc = "decoding" => hufReg.bufferNumBits >= TABLE_LOOKUP_BITS

\* A call has ended normally after refill reloaded bufferBack from the source
\* and used it up again.
C21_Witness ==
    /\ hufPc = "done"
    /\ hufErr = "none"
    /\ hufReg.loaded >= 192
    /\ hufReg.bufferBackNumBits < 64
    /\ hufReg.bufferNumBits < 64

\* C22: every pass of the loop of decode either ends the call with an
\* exception or moves dstIdx on by at least one, a pass that consumes a code
\* of 0 bits or reads behind the end of the source included; so a call makes
\* at most numDstElems passes.
C22_DecodeProgress ==
    [][(hufPc = "decoding" /\ hufReg.dstIdx < hufN)
       => /\ hufReg'.passes = hufReg.passes + 1
          /\ hufReg'.passes <= hufN
          /\ \/ hufPc' = "done" /\ hufErr' # "none"
             \/ hufPc' = "decoding" /\ hufReg'.dstIdx >= hufReg.dstIdx + 1]_vars

\* A pass has read a code of 0 bits from the acceleration table, stored an
\* element and moved dstIdx on.
C22_Witness ==
    /\ hufPc = "decoding"
    /\ ZeroLengthHit
    /\ hufReg.err = "none"
    /\ hufReg.passes = 1
    /\ hufReg.dstIdx = 1

====
